---- MODULE Spec2Model ----
(***************************************************************************)
(* Model of the Nuxt 3 payload hydrator of nuxt_scraper/parser.py:         *)
(* _hydrate_nuxt3_value (a recursive, cache-memoised walk over the         *)
(* serialized array) and deserialize_nuxt3_data (its entry point).         *)
(*                                                                         *)
(* Python values are tagged pairs <<tag, payload>>:                        *)
(*   <<"none",0>>  <<"bool",b>>  <<"int",n>>  <<"float",s>>  <<"str",s>>   *)
(*   <<"list",items>>  <<"dict",pairs>>   objects of the input, by value   *)
(*   <<"ref",a>>       an object allocated by the hydrator, by address     *)
(*   <<"datetime",v>>  <<"pattern",<<p,flags>>>>   decoded special values  *)
(* The recursion is an explicit stack of frames, one per active call.      *)
(***************************************************************************)
EXTENDS Integers, Sequences, FiniteSets, TLC

\* ------------------------------------------------------------------ bounds
MaxLen == 3
MaxCalls == 2
RecursionLimit == 8

\* ------------------------------------------------------------ value syntax
None_ == <<"none", 0>>
B(b) == <<"bool", b>>
I(n) == <<"int", n>>
F(s) == <<"float", s>>
S(s) == <<"str", s>>
L(items) == <<"list", items>>
D(pairs) == <<"dict", pairs>>
Ref(a) == <<"ref", a>>

Tag(v) == v[1]

\* One-field and two-field mappings, key order as written.
D1(k, v) == D(<< <<k, v>> >>)
D2(k1, v1, k2, v2) == D(<< <<k1, v1>>, <<k2, v2>> >>)

RECURSIVE SeqToSet(_)
SeqToSet(s) == IF s = <<>> THEN {} ELSE {Head(s)} \cup SeqToSet(Tail(s))

\* ------------------------------------------------------- Python primitives
\* isinstance(x, int): bool is a subclass of int.
IsInstanceInt(v) == Tag(v) \in {"int", "bool"}

\* The integer a Python int or bool denotes (True == 1, False == 0).
IntValue(v) == IF Tag(v) = "bool" THEN (IF v[2] THEN 1 ELSE 0) ELSE v[2]

\* value is None or isinstance(value, (str, bool, float, int))
IsPrimitive(v) == Tag(v) \in {"none", "str", "bool", "float", "int"}

\* Characters of the strings the inputs use (Python iterates a str by char).
OneChar ==
    {"a", "b", "c", "i", "k", "m", "n", "o", "r", "s", "t", "v", "x", "y", "_",
     "/", "(", "1", "2", "7"}
StrChars(s) ==
    CASE s = "" -> <<>>
      [] s \in OneChar -> <<s>>
      [] s = "ab" -> <<"a", "b">>
      [] s = "12" -> <<"1", "2">>
      [] s = "abc" -> <<"a", "b", "c">>
      [] s = "/a/i" -> <<"/", "a", "/", "i">>
      [] s = "/a/ms" -> <<"/", "a", "/", "m", "s">>
      [] s = "/(/" -> <<"/", "(", "/">>
      [] s = "/a" -> <<"/", "a">>
      [] s = "not_an_array" ->
            <<"n", "o", "t", "_", "a", "n", "_", "a", "r", "r", "a", "y">>
      \* the JSON texts of the text-form inputs
      [] s = "invalid json {" ->
            <<"i", "n", "v", "a", "l", "i", "d", " ", "j", "s", "o", "n", " ", "{">>
      [] s = "[1" -> <<"[", "1">>
      [] s = "  " -> <<" ", " ">>
      [] s = "[]" -> <<"[", "]">>
      [] s = "{\"a\":1}" -> <<"{", "\"", "a", "\"", ":", "1", "}">>
      [] s = "\"a\"" -> <<"\"", "a", "\"">>
      [] s = "[{\"s\":1},{\"k\":\"a\"}]" ->
            <<"[", "{", "\"", "s", "\"", ":", "1", "}", ",",
              "{", "\"", "k", "\"", ":", "\"", "a", "\"", "}", "]">>
      [] s = "[{\"s\":1},{\"$b\":null}]" ->
            <<"[", "{", "\"", "s", "\"", ":", "1", "}", ",",
              "{", "\"", "$", "b", "\"", ":", "n", "u", "l", "l", "}", "]">>
      [] s = "[{\"k\":0}]" -> <<"[", "{", "\"", "k", "\"", ":", "0", "}", "]">>
      [] s = "[{\"s\":1}, [2, true], \"a\"]" ->
            <<"[", "{", "\"", "s", "\"", ":", "1", "}", ",", " ",
              "[", "2", ",", " ", "t", "r", "u", "e", "]", ",", " ",
              "\"", "a", "\"", "]">>
      [] s = "[1] x" -> <<"[", "1", "]", " ", "x">>
      [] s = "{\"a\"}" -> <<"{", "\"", "a", "\"", "}">>
      [] s = "[-5]" -> <<"[", "-", "5", "]">>
      \* the JSON texts of the element strategy
      [] s = "[{\"s\":9},{\"$m\":[[2,3]]},{\"$d\":5},{\"$r\":\"/a/i\"}]" ->
            <<"[", "{", "\"", "s", "\"", ":", "9", "}", ",", "{", "\"", "$",
              "m", "\"", ":", "[", "[", "2", ",", "3", "]", "]", "}", ",",
              "{", "\"", "$", "d", "\"", ":", "5", "}", ",", "{", "\"", "$",
              "r", "\"", ":", "\"", "/", "a", "/", "i", "\"", "}", "]">>
      [] s = "[{\"s\":1},{\"$s\":[9,2]},{\"$m\":[[1]]}]" ->
            <<"[", "{", "\"", "s", "\"", ":", "1", "}", ",", "{", "\"", "$",
              "s", "\"", ":", "[", "9", ",", "2", "]", "}", ",", "{", "\"",
              "$", "m", "\"", ":", "[", "[", "1", "]", "]", "}", "]">>

Digits == <<"0", "1", "2", "3", "4", "5", "6", "7", "8", "9">>
IsDigit(c) == \E d \in 1..10 : Digits[d] = c
DigitValue(c) == (CHOOSE d \in 1..10 : Digits[d] = c) - 1

RECURSIVE DecimalValue(_, _)
DecimalValue(cs, acc) ==
    IF cs = <<>> THEN acc
    ELSE DecimalValue(Tail(cs), acc * 10 + DigitValue(Head(cs)))

\* dict "in": is the key present in the mapping.
HasKey(v, k) == \E j \in 1..Len(v[2]) : v[2][j][1] = k
\* dict subscript value[k].
GetKey(v, k) == v[2][CHOOSE j \in 1..Len(v[2]) : v[2][j][1] = k][2]

\* Python's iteration protocol on a JSON value: a list yields its items, a
\* str its characters, a dict its keys; anything else is not iterable.
IsIterable(v) == Tag(v) \in {"list", "str", "dict"}
IterItems(v) ==
    CASE Tag(v) = "list" -> v[2]
      [] Tag(v) = "str" -> [j \in 1..Len(StrChars(v[2])) |-> S(StrChars(v[2])[j])]
      [] Tag(v) = "dict" -> [j \in 1..Len(v[2]) |-> S(v[2][j][1])]

\* hash(x) succeeds: containers (dict, list, set) are unhashable.
IsHashable(v) == Tag(v) \notin {"ref", "dict", "list"}

\* Equality class of a hashable value as a set member or dict key:
\* True == 1 and False == 0.
HashKey(v) == IF Tag(v) = "bool" THEN I(IntValue(v)) ELSE v

\* ------------------------------------------------ special-value decoding
\* value["$d"] / 1000 and datetime.fromtimestamp: a number (int, bool or
\* float) gives a datetime; any other payload raises TypeError, which the
\* handler turns into the tagged mapping itself.  (Inputs keep timestamps
\* inside the platform's range.)
DecodeDate(value) ==
    LET payload == GetKey(value, "$d")
    IN IF Tag(payload) \in {"int", "bool", "float"}
       THEN <<"datetime", payload>>
       ELSE value

FloatTrunc(s) == CASE s = "1.5" -> 1

\* int(value["$b"]): [exc |-> "" , val] on return, exc names an exception
\* that is not caught.  ValueError (a str that is not a number) is caught and
\* gives the mapping; TypeError (None, list, dict) is not caught.
DecodeBigInt(value) ==
    LET payload == GetKey(value, "$b")
        cs == StrChars(payload[2])
    IN CASE Tag(payload) \in {"int", "bool"} ->
                [exc |-> "", val |-> I(IntValue(payload))]
         [] Tag(payload) = "float" ->
                [exc |-> "", val |-> I(FloatTrunc(payload[2]))]
         [] Tag(payload) = "str" ->
                IF cs # <<>> /\ \A j \in 1..Len(cs) : IsDigit(cs[j])
                THEN [exc |-> "", val |-> I(DecimalValue(cs, 0))]
                ELSE [exc |-> "", val |-> value]
         [] OTHER -> [exc |-> "TypeError", val |-> value]

\* re.compile accepts the pattern: here, its parentheses are balanced.
ValidPattern(cs) ==
    Cardinality({j \in 1..Len(cs) : cs[j] = "("})
        = Cardinality({j \in 1..Len(cs) : cs[j] = ")"})

\* The "$r" branch: "/pattern/flags" compiles, with i, m, s as flags; a str of
\* another shape is returned itself; every exception (no startswith on a
\* non-str, re.error) is caught and gives the tagged mapping.
DecodeRegExp(value) ==
    LET payload == GetKey(value, "$r")
        cs == StrChars(payload[2])
        last_slash == CHOOSE j \in 1..Len(cs) :
                          cs[j] = "/" /\ \A k \in (j+1)..Len(cs) : cs[k] # "/"
        pattern == SubSeq(cs, 2, last_slash - 1)
        flags_str == SubSeq(cs, last_slash + 1, Len(cs))
        flags == {f \in {"i", "m", "s"} :
                     \E j \in 1..Len(flags_str) : flags_str[j] = f}
    IN IF Tag(payload) # "str" THEN value
       ELSE IF Len(cs) >= 1 /\ cs[1] = "/" /\ \E j \in 2..Len(cs) : cs[j] = "/"
            THEN IF ValidPattern(pattern)
                 THEN <<"pattern", <<pattern, flags>>>>
                 ELSE value
            ELSE payload

\* ------------------------------------------------------------- json.loads
\* The decoder of the standard library on a str, for JSON without string
\* escapes and exponents (the texts above).  Positions are 0-based, as the
\* pos of a JSONDecodeError.
RECURSIVE CharsToStr(_)
CharsToStr(cs) == IF cs = <<>> THEN "" ELSE Head(cs) \o CharsToStr(Tail(cs))

\* s[end:end+1]
At(cs, end) == IF end >= 0 /\ end < Len(cs) THEN cs[end + 1] ELSE ""

Whitespace == {" "}
RECURSIVE SkipWhitespace(_, _)
SkipWhitespace(cs, end) ==
    IF At(cs, end) \in Whitespace THEN SkipWhitespace(cs, end + 1) ELSE end

JsonOk(v, end) == [exc |-> "", val |-> v, end |-> end, msg |-> ""]
JsonError(msg, pos) ==
    [exc |-> "JSONDecodeError", val |-> None_, end |-> pos, msg |-> msg]

\* scanstring: from `begin`, the index after the opening quote, to the
\* closing quote.
RECURSIVE ScanString(_, _, _)
ScanString(cs, begin, end) ==
    IF end >= Len(cs)
    THEN JsonError("Unterminated string starting at", begin - 1)
    ELSE IF cs[end + 1] = "\""
         THEN JsonOk(S(CharsToStr(SubSeq(cs, begin + 1, end))), end + 1)
         ELSE ScanString(cs, begin, end + 1)

RECURSIVE DigitsEnd(_, _)
DigitsEnd(cs, end) == IF IsDigit(At(cs, end)) THEN DigitsEnd(cs, end + 1) ELSE end

\* NUMBER_RE: -?(0|[1-9]\d*)(\.\d+)?
ScanNumber(cs, idx) ==
    LET start == IF At(cs, idx) = "-" THEN idx + 1 ELSE idx
        int_end == IF At(cs, start) = "0" THEN start + 1 ELSE DigitsEnd(cs, start)
        magnitude == DecimalValue(SubSeq(cs, start + 1, int_end), 0)
        frac_end == DigitsEnd(cs, int_end + 1)
    IN IF ~IsDigit(At(cs, start)) THEN JsonError("Expecting value", idx)
       ELSE IF At(cs, int_end) = "." /\ IsDigit(At(cs, int_end + 1))
            THEN JsonOk(F(CharsToStr(SubSeq(cs, idx + 1, frac_end))), frac_end)
            ELSE JsonOk(I(IF start = idx THEN magnitude ELSE 0 - magnitude), int_end)

StartsWith(cs, idx, word) ==
    idx + Len(word) <= Len(cs) /\ SubSeq(cs, idx + 1, idx + Len(word)) = word

\* dict(pairs): a repeated key keeps its place and takes the later value.
SetPair(pairs, key, value) ==
    IF \E j \in 1..Len(pairs) : pairs[j][1] = key
    THEN [j \in 1..Len(pairs) |->
             IF pairs[j][1] = key THEN <<key, value>> ELSE pairs[j]]
    ELSE Append(pairs, <<key, value>>)

RECURSIVE ScanOnce(_, _)
RECURSIVE JSONArray(_, _, _)
RECURSIVE JSONObject(_, _, _)

\* scan_once: the value that starts at idx.
ScanOnce(cs, idx) ==
    LET nextchar == At(cs, idx)
        after_brace == IF At(cs, idx + 1) = "\"" THEN idx + 1
                       ELSE SkipWhitespace(cs, idx + 1)
        after_bracket == SkipWhitespace(cs, idx + 1)
    IN CASE nextchar = "\"" -> ScanString(cs, idx + 1, idx + 1)
         [] nextchar = "{" ->
                IF At(cs, after_brace) = "}" THEN JsonOk(D(<<>>), after_brace + 1)
                ELSE IF At(cs, after_brace) # "\""
                THEN JsonError("Expecting property name enclosed in double quotes",
                               after_brace)
                ELSE JSONObject(cs, after_brace + 1, <<>>)
         [] nextchar = "[" ->
                IF At(cs, after_bracket) = "]" THEN JsonOk(L(<<>>), after_bracket + 1)
                ELSE JSONArray(cs, after_bracket, <<>>)
         [] nextchar = "n" /\ StartsWith(cs, idx, <<"n", "u", "l", "l">>) ->
                JsonOk(None_, idx + 4)
         [] nextchar = "t" /\ StartsWith(cs, idx, <<"t", "r", "u", "e">>) ->
                JsonOk(B(TRUE), idx + 4)
         [] nextchar = "f" /\ StartsWith(cs, idx, <<"f", "a", "l", "s", "e">>) ->
                JsonOk(B(FALSE), idx + 5)
         [] nextchar = "-" \/ IsDigit(nextchar) -> ScanNumber(cs, idx)
         [] OTHER -> JsonError("Expecting value", idx)

\* JSONArray: the items from `end` on, after `values`.
JSONArray(cs, end, values) ==
    LET item == ScanOnce(cs, end)
        after == SkipWhitespace(cs, item.end)
        nextchar == At(cs, after)
    IN IF item.exc # "" THEN item
       ELSE IF nextchar = "]" THEN JsonOk(L(Append(values, item.val)), after + 1)
       ELSE IF nextchar # "," THEN JsonError("Expecting ',' delimiter", after)
       ELSE JSONArray(cs, SkipWhitespace(cs, after + 1), Append(values, item.val))

\* JSONObject: the members from `end` on, the index after the opening quote
\* of the next key, after `pairs`.
JSONObject(cs, end, pairs) ==
    LET key == ScanString(cs, end, end)
        colon == SkipWhitespace(cs, key.end)
        value == ScanOnce(cs, SkipWhitespace(cs, colon + 1))
        after == SkipWhitespace(cs, value.end)
        nextchar == At(cs, after)
        more == SetPair(pairs, key.val[2], value.val)
        next_key == SkipWhitespace(cs, after + 1)
    IN IF key.exc # "" THEN key
       ELSE IF At(cs, colon) # ":" THEN JsonError("Expecting ':' delimiter", colon)
       ELSE IF value.exc # "" THEN value
       ELSE IF nextchar = "}" THEN JsonOk(D(more), after + 1)
       ELSE IF nextchar # "," THEN JsonError("Expecting ',' delimiter", after)
       ELSE IF At(cs, next_key) # "\""
       THEN JsonError("Expecting property name enclosed in double quotes", next_key)
       ELSE JSONObject(cs, next_key + 1, more)

\* json.loads(s) for a str s: the value, or the JSONDecodeError.
JsonLoads(s) ==
    LET cs == StrChars(s[2])
        obj == ScanOnce(cs, SkipWhitespace(cs, 0))
        end == SkipWhitespace(cs, obj.end)
    IN IF obj.exc # "" THEN obj
       ELSE IF end # Len(cs) THEN JsonError("Extra data", end)
       ELSE obj

\* str.strip() leaves nothing.
IsBlank(s) == \A j \in 1..Len(StrChars(s[2])) : StrChars(s[2])[j] \in Whitespace

\* bool(v): None, False, 0, 0.0, "" and empty containers are falsy.
Truthy(v) ==
    CASE Tag(v) = "none" -> FALSE
      [] Tag(v) = "bool" -> v[2]
      [] Tag(v) = "int" -> v[2] # 0
      [] Tag(v) = "float" -> v[2] \notin {"0.0", "-0.0"}
      [] Tag(v) = "str" -> v[2] # ""
      [] Tag(v) \in {"list", "dict"} -> v[2] # <<>>
      [] OTHER -> TRUE

\* ------------------------------------------------------------------ state
Procs == {1, 2}

VARIABLES
    pc,          \* per call site: "off", "idle", "hydrate", "deserialize",
                 \* "done" (deserialize is over), "returned" (parse_nuxt_result is)
    entry,       \* the function the caller called, "" before the call
    extraction_result, \* the arguments of parse_nuxt_result
    deserialize_nuxt3,
    raw_data,    \* the argument of deserialize / the data_array of hydrate
    is_json_string,    \* deserialize's text-form flag
    parsed_data, \* the array that is hydrated (data_array)
    cache,       \* the cache dict of the current run: slot index -> value
    heap,        \* objects the hydrator allocated: address -> object
    stack,       \* active _hydrate_nuxt3_value calls, outermost first
    hret,        \* how the last outermost hydrate call ended
    outcome,     \* what deserialize_nuxt3_data returned
    args,        \* index_or_value of the outermost hydrate calls so far
    expanded,    \* per slot: times line 103 read it in the current run
    returned,    \* per slot: the values hydrate calls for it have returned
    extractor,   \* the NuxtDataExtractor and the call made on it
    calendar     \* the SELECT_DATE step under way and the calendar it drives

vars == <<pc, entry, extraction_result, deserialize_nuxt3, raw_data,
          is_json_string, parsed_data, cache, heap, stack, hret, outcome, args,
          expanded, returned, extractor, calendar>>

NoCache == [j \in {} |-> None_]
NoResult == [kind |-> "none", val |-> None_]

\* cache[index] = value
CachePut(c, index, value) ==
    [j \in DOMAIN c \cup {index} |-> IF j = index THEN value ELSE c[j]]

\* len(data_array) and data_array[i] with Python's 0-based index.
ArrLen(p) == Len(parsed_data[p][2])
Slot(p, i) == parsed_data[p][2][i + 1]

Top(p) == stack[p][Len(stack[p])]
NewFrame(arg) ==
    [arg |-> arg, pc |-> "enter", kind |-> "none", slot |-> -1, addr |-> 0,
     todo |-> <<>>, key |-> None_, pend |-> None_, phase |-> "item"]

InBounds(p, v) == IsInstanceInt(v) /\ IntValue(v) >= 0 /\ IntValue(v) < ArrLen(p)

\* ------------------------------------------------- container operations
\* result[key] = value on a dict: an equal key keeps its place and its first
\* spelling, a new key goes last.
DictSet(pairs, key, value) ==
    IF \E j \in 1..Len(pairs) : HashKey(pairs[j][1]) = HashKey(key)
    THEN [j \in 1..Len(pairs) |->
             IF HashKey(pairs[j][1]) = HashKey(key)
             THEN <<pairs[j][1], value>> ELSE pairs[j]]
    ELSE Append(pairs, <<key, value>>)

\* result.add(item) on a set: an equal member stays.
SetAdd(members, item) ==
    IF \E e \in members : HashKey(e) = HashKey(item)
    THEN members ELSE members \cup {item}

\* ------------------------------------------------------ cache discipline
\* line 100: index_or_value in cache
CacheHasNever(c, index) == FALSE
CacheHas(c, index) == index \in DOMAIN c

\* line 101: return cache[index_or_value] -- the cached object itself.
CacheHitCopy(hp, c, index) ==
    IF Tag(c[index]) = "ref"
    THEN [val |-> Ref(Len(hp) + 1), heap |-> Append(hp, hp[c[index][2]])]
    ELSE [val |-> c[index], heap |-> hp]
CacheHit(hp, c, index) == [val |-> c[index], heap |-> hp]

\* The dict a call uses as its cache: line 246 makes it a local of the
\* deserialize call (a direct caller of hydrate passes its own), not a dict
\* of the module.
CacheOfModule(p) == 1
CacheOf(p) == p

\* line 97: return None
OutOfBoundsIndex(arg) == arg
OutOfBoundsResult(arg) == None_

\* lines 128, 137, 188, 196: the new container is cached before the loop
\* over its children starts.
CacheEarlyOmitted(c, index, container) == c
CacheEarly(c, index, container) == CachePut(c, index, container)

\* line 198: result.append(<hydrated item>)
ListAppend(items, v) == Append(items, v)

\* ------------------------------------------- return and raise of a call
Raised(p, exc) ==
    [stack |-> <<>>, heap |-> heap[p],
     hret |-> [kind |-> "raise", val |-> <<"exc", exc>>]]

\* The top call returns v to its caller, which stores it (lines 131, 139-141,
\* 190, 198).  An unhashable set member or map key raises TypeError there;
\* no frame catches it, so the whole stack unwinds.
AfterReturn(p, hp, v) ==
    LET n == Len(stack[p])
        par == stack[p][n - 1]
        below == SubSeq(stack[p], 1, n - 2)
        obj == hp[par.addr]
        put(o) == [hp EXCEPT ![par.addr] = o]
        back == [par EXCEPT !.pc = "loop", !.phase = "item"]
    IN IF n = 1
       THEN [stack |-> <<>>, heap |-> hp, hret |-> [kind |-> "return", val |-> v]]
       ELSE CASE par.kind = "list" ->
                   [stack |-> Append(below, back),
                    heap |-> put(<<"list", ListAppend(obj[2], v)>>),
                    hret |-> hret[p]]
              [] par.kind = "dict" ->
                   [stack |-> Append(below, back),
                    heap |-> put(<<"dict", DictSet(obj[2], par.key, v)>>),
                    hret |-> hret[p]]
              [] par.kind = "set" ->
                   IF IsHashable(v)
                   THEN [stack |-> Append(below, back),
                         heap |-> put(<<"set", SetAdd(obj[2], v)>>),
                         hret |-> hret[p]]
                   ELSE [Raised(p, "TypeError") EXCEPT !.heap = hp]
              [] par.kind = "map" /\ par.phase = "key" ->
                   [stack |-> Append(below,
                                [par EXCEPT !.pc = "loop", !.phase = "value", !.key = v]),
                    heap |-> hp, hret |-> hret[p]]
              [] par.kind = "map" /\ par.phase = "value" ->
                   IF IsHashable(par.key)
                   THEN [stack |-> Append(below, back),
                         heap |-> put(<<"dict", DictSet(obj[2], par.key, v)>>),
                         hret |-> hret[p]]
                   ELSE [Raised(p, "TypeError") EXCEPT !.heap = hp]

\* The values each slot's hydrate calls have returned so far, in order.
NoteReturn(p, v) ==
    LET a == Top(p).arg
    IN IF InBounds(p, a)
       THEN [returned EXCEPT ![p][IntValue(a)] = Append(@, v)]
       ELSE returned

Become(p, r) ==
    /\ stack' = [stack EXCEPT ![p] = r.stack]
    /\ heap' = [heap EXCEPT ![p] = r.heap]
    /\ hret' = [hret EXCEPT ![p] = r.hret]

\* return v from the top call
Return(p, v) ==
    /\ Become(p, AfterReturn(p, heap[p], v))
    /\ returned' = NoteReturn(p, v)

\* an exception leaves the top call
Raise(p, exc) ==
    /\ Become(p, Raised(p, exc))
    /\ UNCHANGED returned

\* The top call is at the start of _hydrate_nuxt3_value.
AtEnter(p) ==
    /\ pc[p] \in {"hydrate", "deserialize"}
    /\ stack[p] # <<>>
    /\ Top(p).pc = "enter"

\* ... and got past the bounds and cache checks to line 103.
AtValue(p) ==
    /\ AtEnter(p)
    /\ InBounds(p, Top(p).arg)
    /\ ~CacheHas(cache[CacheOf(p)], IntValue(Top(p).arg))

Index(p) == IntValue(Top(p).arg)
Value(p) == Slot(p, Index(p))
Expand(p) == expanded' = [expanded EXCEPT ![p][Index(p)] = @ + 1]

\* --------------------------------------------- _hydrate_nuxt3_value steps
\* line 103 reads data_array[index_or_value]; every assignment of the
\* function goes to `result` or to `cache`, none into data_array or a value
\* inside it.
DataArrayCached(data, c) ==
    IF Tag(data) = "list"
    THEN L([j \in 1..Len(data[2]) |->
              IF (j - 1) \in DOMAIN c THEN c[j - 1] ELSE data[2][j]])
    ELSE data
DataArrayAfter(data, c) == data

\* The array after a step of the hydrator; without the text form the
\* caller's input is that array.
DataArrayKept(p) ==
    /\ parsed_data' = [parsed_data EXCEPT ![p] =
                          DataArrayAfter(@, cache'[CacheOf(p)])]
    /\ raw_data' = [raw_data EXCEPT ![p] =
                       IF @ = parsed_data[p]
                       THEN DataArrayAfter(@, cache'[CacheOf(p)]) ELSE @]

Rest(p) ==
    /\ UNCHANGED <<extractor, calendar, pc, entry, extraction_result,
                   deserialize_nuxt3,
                   is_json_string, outcome, args>>
    /\ DataArrayKept(p)

\* lines 91-92: not an int (a bool is an int): returned as it is.
EnterLiteral(p) ==
    /\ AtEnter(p)
    /\ ~IsInstanceInt(Top(p).arg)
    /\ Return(p, Top(p).arg)
    /\ UNCHANGED <<cache, expanded>> /\ Rest(p)

\* lines 95-97: index out of bounds gives None.
EnterOutOfBounds(p) ==
    /\ AtEnter(p)
    /\ IsInstanceInt(Top(p).arg)
    /\ ~InBounds(p, Top(p).arg)
    /\ Return(p, OutOfBoundsResult(Top(p).arg))
    /\ UNCHANGED <<cache, expanded>> /\ Rest(p)

\* lines 100-101: cache hit.
EnterCached(p) ==
    /\ AtEnter(p)
    /\ InBounds(p, Top(p).arg)
    /\ CacheHas(cache[CacheOf(p)], Index(p))
    /\ LET hit == CacheHit(heap[p], cache[CacheOf(p)], Index(p))
       IN /\ Become(p, AfterReturn(p, hit.heap, hit.val))
          /\ returned' = NoteReturn(p, hit.val)
    /\ UNCHANGED <<cache, expanded>> /\ Rest(p)

\* lines 103-108: a primitive slot is cached and returned.
EnterPrimitive(p) ==
    /\ AtValue(p)
    /\ IsPrimitive(Value(p))
    /\ cache' = [cache EXCEPT ![CacheOf(p)] = CachePut(@, Index(p), Value(p))]
    /\ Expand(p)
    /\ Return(p, Value(p))
    /\ Rest(p)

IsDict(v) == Tag(v) = "dict"
\* The marker the if/elif chain of lines 113-185 selects, "" for none.
Marker(v) ==
    CASE HasKey(v, "$d") -> "$d"
      [] HasKey(v, "$s") -> "$s"
      [] HasKey(v, "$m") -> "$m"
      [] HasKey(v, "$b") -> "$b"
      [] HasKey(v, "$r") -> "$r"
      [] OTHER -> ""

\* lines 113-123: date marker.
EnterDate(p) ==
    /\ AtValue(p)
    /\ IsDict(Value(p)) /\ Marker(Value(p)) = "$d"
    /\ cache' = [cache EXCEPT ![CacheOf(p)] = CachePut(@, Index(p), DecodeDate(Value(p)))]
    /\ Expand(p)
    /\ Return(p, DecodeDate(Value(p)))
    /\ Rest(p)

\* lines 144-153: bigint marker; a TypeError of int() leaves the call.
EnterBigInt(p) ==
    /\ AtValue(p)
    /\ IsDict(Value(p)) /\ Marker(Value(p)) = "$b"
    /\ Expand(p)
    /\ LET r == DecodeBigInt(Value(p))
       IN IF r.exc = ""
          THEN /\ cache' = [cache EXCEPT ![CacheOf(p)] = CachePut(@, Index(p), r.val)]
               /\ Return(p, r.val)
          ELSE /\ UNCHANGED cache
               /\ Raise(p, r.exc)
    /\ Rest(p)

\* lines 155-183: regexp marker.
EnterRegExp(p) ==
    /\ AtValue(p)
    /\ IsDict(Value(p)) /\ Marker(Value(p)) = "$r"
    /\ cache' = [cache EXCEPT ![CacheOf(p)] = CachePut(@, Index(p), DecodeRegExp(Value(p)))]
    /\ Expand(p)
    /\ Return(p, DecodeRegExp(Value(p)))
    /\ Rest(p)

\* A compound slot: allocate the empty result, cache it, start the loop over
\* `children`; `iterable` is false when the for statement itself raises
\* TypeError (after the cache entry was made).
EnterCompound(p, kind, empty, iterable, children) ==
    LET a == Len(heap[p]) + 1
        hp == Append(heap[p], empty)
    IN /\ cache' = [cache EXCEPT ![CacheOf(p)] = CacheEarly(@, Index(p), Ref(a))]
       /\ Expand(p)
       /\ UNCHANGED returned
       /\ IF iterable
          THEN Become(p, [stack |-> [stack[p] EXCEPT ![Len(stack[p])] =
                                       [@ EXCEPT !.pc = "loop", !.kind = kind,
                                                 !.slot = Index(p), !.addr = a,
                                                 !.todo = children]],
                          heap |-> hp, hret |-> hret[p]])
          ELSE Become(p, [Raised(p, "TypeError") EXCEPT !.heap = hp])
       /\ Rest(p)

\* lines 125-129: set marker.
EnterSet(p) ==
    /\ AtValue(p)
    /\ IsDict(Value(p)) /\ Marker(Value(p)) = "$s"
    /\ LET payload == GetKey(Value(p), "$s")
       IN EnterCompound(p, "set", <<"set", {}>>, IsIterable(payload),
                        IF IsIterable(payload) THEN IterItems(payload) ELSE <<>>)

\* lines 134-138: map marker.
EnterMap(p) ==
    /\ AtValue(p)
    /\ IsDict(Value(p)) /\ Marker(Value(p)) = "$m"
    /\ LET payload == GetKey(Value(p), "$m")
       IN EnterCompound(p, "map", <<"dict", <<>>>>, IsIterable(payload),
                        IF IsIterable(payload) THEN IterItems(payload) ELSE <<>>)

\* lines 185-189: plain mapping; todo holds the (key, value) items.
EnterObject(p) ==
    /\ AtValue(p)
    /\ IsDict(Value(p)) /\ Marker(Value(p)) = ""
    /\ EnterCompound(p, "dict", <<"dict", <<>>>>, TRUE, Value(p)[2])

\* lines 194-197: array.
EnterArray(p) ==
    /\ AtValue(p)
    /\ Tag(Value(p)) = "list"
    /\ EnterCompound(p, "list", <<"list", <<>>>>, TRUE, Value(p)[2])

AtLoop(p) ==
    /\ pc[p] \in {"hydrate", "deserialize"}
    /\ stack[p] # <<>>
    /\ Top(p).pc = "loop"

Push(p, parent, arg) ==
    /\ Len(stack[p]) < RecursionLimit
    /\ stack' = [stack EXCEPT ![p] =
                    Append([@ EXCEPT ![Len(@)] = parent], NewFrame(arg))]
    /\ UNCHANGED <<heap, hret, cache, expanded, returned>> /\ Rest(p)

\* lines 130, 190, 198: the recursive call for the next child of a set, a
\* plain mapping or an array.
LoopCall(p) ==
    /\ AtLoop(p)
    /\ Top(p).kind \in {"set", "dict", "list"}
    /\ Top(p).todo # <<>>
    /\ LET f == Top(p)
           item == Head(f.todo)
       IN IF f.kind = "dict"
          THEN Push(p, [f EXCEPT !.pc = "wait", !.todo = Tail(@), !.key = S(item[1])],
                    item[2])
          ELSE Push(p, [f EXCEPT !.pc = "wait", !.todo = Tail(@)], item)

\* line 138: `for key_index, value_index in ...` unpacks the next entry.
CanUnpack(pair) == IsIterable(pair) /\ Len(IterItems(pair)) = 2

\* line 139: the recursive call for the key of the next map entry.
MapCallKey(p) ==
    /\ AtLoop(p)
    /\ Top(p).kind = "map" /\ Top(p).phase = "item"
    /\ Top(p).todo # <<>>
    /\ CanUnpack(Head(Top(p).todo))
    /\ LET f == Top(p)
           kv == IterItems(Head(f.todo))
       IN Push(p, [f EXCEPT !.pc = "wait", !.todo = Tail(@), !.phase = "key",
                            !.pend = kv[2]], kv[1])

\* line 138: an entry that is not a pair: TypeError when it is not iterable,
\* ValueError when it has not exactly two items.
MapUnpackError(p) ==
    /\ AtLoop(p)
    /\ Top(p).kind = "map" /\ Top(p).phase = "item"
    /\ Top(p).todo # <<>>
    /\ ~CanUnpack(Head(Top(p).todo))
    /\ Raise(p, IF IsIterable(Head(Top(p).todo)) THEN "ValueError" ELSE "TypeError")
    /\ UNCHANGED <<cache, expanded>> /\ Rest(p)

\* line 140: the recursive call for the value of the map entry.
MapCallValue(p) ==
    /\ AtLoop(p)
    /\ Top(p).kind = "map" /\ Top(p).phase = "value"
    /\ Push(p, [Top(p) EXCEPT !.pc = "wait"], Top(p).pend)

\* lines 132, 142, 191, 199: the loop is over, the container is returned.
LoopDone(p) ==
    /\ AtLoop(p)
    /\ Top(p).phase = "item"
    /\ Top(p).todo = <<>>
    /\ Return(p, Ref(Top(p).addr))
    /\ UNCHANGED <<cache, expanded>> /\ Rest(p)

\* ------------------------------------------------------------------ inputs
Meta == D1("state", I(1))

\* Slot references used by generated arrays of n slots; n itself is out of
\* bounds.
Refs(n) == {I(j) : j \in 0..n}
InnerRefs(n) == {I(j) : j \in 1..(n - 1)}

\* Slot values of generated arrays: every reference shape of a plain
\* mapping, a sequence, a set marker and a map marker, a string, a date and
\* a bigint marker without a number.
SlotChoices(n) ==
    {S("a"), D1("$d", I(5)), D1("$b", None_)}
    \cup {D1("k", c) : c \in Refs(n)}
    \cup {L(<<c1, c2>>) : c1 \in InnerRefs(n), c2 \in InnerRefs(n)}
    \cup {D1("$s", L(<<c>>)) : c \in InnerRefs(n)}
    \cup {D1("$m", L(<< L(<<c1, c2>>) >>)) : c1 \in InnerRefs(n), c2 \in InnerRefs(n)}

\* The generated arrays of up to n slots: the metadata slot, then the slots
\* a tail gives.
Tails(k, n) == [1..k -> SlotChoices(n)]
Generated(tail) == L(<<Meta>> \o tail)

\* The arrays of the documented scenarios and of the test suite.
ScenarioArrays ==
    { <<Meta, D2("name", S("test"), "value", I(42))>>,
      <<Meta, D1("users", L(<<I(2), I(3)>>)),
        D2("id", I(1), "name", S("Alice")), D2("id", I(2), "name", S("Bob"))>>,
      <<Meta, D1("tags", D1("$s", L(<<I(2), I(3)>>))), S("admin"), S("user")>>,
      <<Meta, D2("parent", I(2), "child", I(3)),
        D2("name", S("parent"), "child", I(3)),
        D2("name", S("child"), "parent", I(2))>>,
      <<Meta, D2("name", S("self"), "self_ref", I(1))>>,
      <<Meta, D2("name", S("A"), "next", I(2)), D2("name", S("B"), "next", I(3)),
        D2("name", S("C"), "next", I(1))>>,
      <<Meta, D1("bad_bigint", D1("$b", None_))>>,
      <<Meta, D2("bad_date", D1("$d", S("x")), "good_field", S("works"))>>,
      <<Meta, D2("bad_set", D1("$s", S("not_an_array")), "good_field", S("works"))>>,
      <<Meta, D2("bad_map", D1("$m", S("not_an_array")), "good_field", S("works"))>>,
      <<Meta, D2("f", I(2), "g", S("ok")), D1("$d", S("x"))>>,
      <<Meta, D2("f", I(2), "g", S("ok")), D1("$s", S("not_an_array"))>>,
      <<Meta, D2("f", I(2), "g", S("ok")), D1("$m", S("not_an_array"))>>,
      <<Meta, D2("f", I(2), "g", S("ok")), D1("$b", None_)>>,
      <<Meta, D2("f", I(2), "g", S("ok")), D1("$r", None_)>>,
      <<Meta, D2("inStock", B(TRUE), "name", I(2)), S("Laptop")>>,
      <<Meta, L(<<B(FALSE), B(TRUE), S("a")>>)>>,
      <<Meta, D1("$s", L(<<I(2), I(3)>>)), I(1), B(TRUE)>>,
      <<Meta, D1("$m", L(<< L(<<I(2), I(4)>>), L(<<I(3), I(5)>>) >>)),
        I(1), B(TRUE), S("a"), S("b")>>,
      <<Meta, D1("k", I(2)), D1("$s", L(<<I(3)>>)), D1("k", S("a"))>>,
      <<Meta, L(<<I(2), I(3), I(4), I(5), I(6), I(7), I(8)>>), D1("$d", S("x")),
        D1("$s", S("ab")), D1("$s", None_), D1("$m", S("ab")),
        D1("$m", L(<< L(<<I(1)>>) >>)), D1("$r", None_), D1("$b", S("x"))>>,
      <<Meta, L(<<I(2), I(3), I(4), I(5), I(6)>>), D1("$b", S("12")),
        D1("$r", S("/a/i")), D1("$r", S("abc")), D1("$r", S("/(/")),
        D1("$d", F("1.5"))>>,
      <<Meta, D1("$s", L(<<I(1)>>))>>,
      <<Meta, D1("$s", L(<<I(2), I(1)>>)), S("a")>>,
      <<Meta, D1("$m", L(<< L(<<I(1), I(2)>>) >>)), S("v")>>,
      <<Meta, D1("$m", L(<< L(<<I(2), I(1)>>) >>)), S("k")>>,
      <<Meta, L(<<I(2), I(2)>>), D1("k", I(1))>>,
      <<Meta, D1("refs", I(2)), L(<<I(3), I(3), I(3)>>), D1("expensive", S("object"))>>,
      <<S("test"), I(42), B(TRUE), None_>>,
      <<Meta, D2("bad_regexp", D1("$r", S("abc")), "normal_field", S("works"))>>,
      <<Meta, D2("ref", I(999), "ok", I(2)), S("a")>> }

\* Arguments of direct hydrate calls (index_or_value).
TopArgs ==
    {I(j) : j \in (-1)..MaxLen}
    \cup {B(TRUE), B(FALSE), S("a"), None_, D1("$s", L(<<I(1)>>))}

ScenarioInputs == {L(a) : a \in ScenarioArrays}
\* Inputs that are not in the serialized format.
PlainInputs == {L(<<>>), D1("simple", S("object"))}

\* Inputs of the text form: JSON texts and values that are not a str.
JsonTexts ==
    {"invalid json {", "[1", "  ", "", "[]", "{\"a\":1}", "\"a\"",
     "[{\"s\":1},{\"k\":\"a\"}]", "[{\"s\":1},{\"$b\":null}]", "[{\"k\":0}]",
     "[{\"s\":1}, [2, true], \"a\"]", "[1] x", "{\"a\"}", "[-5]"}
TextInputs ==
    {S(t) : t \in JsonTexts}
    \cup {L(<<Meta, D1("k", S("a"))>>), D1("simple", S("object")), None_, I(5)}

\* Results of the combined extraction script, as parse_nuxt_result gets them.
ER(data, method) == D2("data", data, "method", method)
DataChoices ==
    {None_, S(""), L(<<>>), I(0), I(5), D1("a", I(1)), L(<<I(1)>>),
     L(<<Meta, D1("k", S("a"))>>), L(<<Meta, D1("f", I(2)), D1("$b", None_)>>),
     L(<<Meta, D2("k", I(1), "n", I(9))>>),
     S("  "), S("[1"), S("[]"), S("{\"a\":1}"), S("[{\"s\":1},{\"k\":\"a\"}]"),
     S("[{\"s\":1},{\"$b\":null}]"), S("[{\"k\":0}]")}
MethodChoices == {S("element"), S("window"), S("x"), S(""), None_, B(TRUE)}
ExtractionResults ==
    {None_, L(<<>>), L(<<I(1)>>), S("x"), I(0), B(TRUE), D(<<>>),
     D1("data", S("[]")), D1("method", S("window")),
     D(<< <<"data", S("[1")>>, <<"method", S("element")>>, <<"raw", S("[1")>> >>)}
    \cup {ER(data, method) : data \in DataChoices, method \in MethodChoices}

\* ------------------------------------------------------------- entry points
NoSlots == [j \in {} |-> 0]
SlotsOf(v) == IF Tag(v) = "list" THEN 0..(Len(v[2]) - 1) ELSE {}

Off(x) == [p \in Procs |-> x]

\* NuxtDataExtractor.__init__, extractor.py lines 85-87: nothing is held. The
\* fields after the three attributes follow the call made on the extractor:
\* `lifecycle` is "new", "started", "failed" or "stopped"; `pages` counts
\* self._context.pages; `method` is the method called last and `at` its
\* position; `own` says the call opened its page itself; `evaluations` are
\* the values page.evaluate gave; `combined` is how _extract_combined ended
\* and `result` how the method did; `opened` and `touched` count the pages
\* the call opened and the operations it made on a page.
NoExtractor ==
    [_playwright |-> FALSE, _browser |-> FALSE, _context |-> FALSE,
     lifecycle |-> "new", pages |-> 0, method |-> "", at |-> "idle",
     own |-> FALSE, evaluations |-> <<>>, combined |-> NoResult,
     result |-> NoResult, opened |-> 0, touched |-> 0]

\* range(120), steps.py line 258
MaxAttempts == 120

\* No SELECT_DATE step has run: `at` is the position in _handle_select_date,
\* `attempt` the loop variable, `display` what the month/year display showed
\* last, `clicks` the prev/next clicks so far, `raised` how
\* _handle_select_date ended and `result` how execute_step did.
NoCalendar ==
    [at |-> "idle", attempt |-> 0, display |-> "", clicks |-> 0,
     raised |-> NoResult, result |-> NoResult]

\* Nothing has been called yet.
NotCalled ==
    /\ entry = Off("")
    /\ extraction_result = Off(None_)
    /\ deserialize_nuxt3 = Off(FALSE)
    /\ raw_data = Off(None_)
    /\ is_json_string = Off(FALSE)
    /\ parsed_data = Off(None_)
    /\ cache = Off(NoCache)
    /\ heap = Off(<<>>)
    /\ stack = Off(<<>>)
    /\ hret = Off(NoResult)
    /\ outcome = Off(NoResult)
    /\ args = Off(<<>>)
    /\ expanded = Off(NoSlots)
    /\ returned = Off(NoSlots)
    /\ extractor = NoExtractor
    /\ calendar = NoCalendar

\* Call site 1 is the one in use.
Init ==
    /\ pc = [Off("off") EXCEPT ![1] = "idle"]
    /\ NotCalled

\* The caller calls `fn`; parse_nuxt_result keeps its arguments.
Enter(p, fn) ==
    /\ entry' = [entry EXCEPT ![p] = fn]
    /\ UNCHANGED <<extractor, calendar, extraction_result, deserialize_nuxt3>>

\* A caller of _hydrate_nuxt3_value (the tests) calls it with a data array
\* and its own cache dict, empty at first, again and again.
HydrateCall(p, data, arg) ==
    /\ pc[p] \in {"idle", "hydrate"}
    /\ stack[p] = <<>>
    /\ Len(args[p]) < MaxCalls
    /\ IF pc[p] = "idle"
       THEN /\ raw_data' = [raw_data EXCEPT ![p] = data]
            /\ parsed_data' = [parsed_data EXCEPT ![p] = data]
            /\ returned' = [returned EXCEPT ![p] = [j \in SlotsOf(data) |-> <<>>]]
       ELSE /\ data = parsed_data[p]
            /\ UNCHANGED <<raw_data, parsed_data, returned>>
    /\ pc' = [pc EXCEPT ![p] = "hydrate"]
    /\ args' = [args EXCEPT ![p] = Append(@, arg)]
    /\ stack' = [stack EXCEPT ![p] = <<NewFrame(arg)>>]
    /\ hret' = [hret EXCEPT ![p] = NoResult]
    /\ expanded' = [expanded EXCEPT ![p] = [j \in SlotsOf(data) |-> 0]]
    /\ UNCHANGED <<is_json_string, cache, heap, outcome>>

\* The exceptions of the package, as the outcome of a call.
DataParsingError(message, raw_content, cause) ==
    [kind |-> "raise", val |-> <<"exc", "DataParsingError">>,
     message |-> message, raw_content |-> raw_content, cause |-> cause]
NuxtDataNotFound(message) ==
    [kind |-> "raise", val |-> <<"exc", "NuxtDataNotFound">>, message |-> message]
\* str(e) of a JSONDecodeError: its message and position.
Detail(e) == <<e.msg, e.end>>

\* deserialize_nuxt3_data, lines 225-233: parsed_data, or the exception the
\* parse step raises.
ParsedData(input, flag) ==
    IF ~flag THEN JsonOk(input, 0)
    ELSE IF Tag(input) = "str" THEN JsonLoads(input)
    ELSE [exc |-> "DataParsingError", val |-> None_, end |-> 0,
          msg |-> "Expected JSON string but got non-string type"]

\* lines 236-243: not a list, or an empty list.
NotSerializedLax(v) == Tag(v) # "list"
NotSerialized(v) == Tag(v) # "list" \/ Len(v[2]) = 0

\* lines 262-263: a JSONDecodeError becomes a DataParsingError
\* ("Failed to parse Nuxt data JSON: {e}", from e).
DecodeErrorSwallowed(raw, e) == [kind |-> "return", val |-> raw]
DecodeErrorOutcome(raw, e) ==
    DataParsingError(<<"Failed to parse Nuxt data JSON: ", Detail(e)>>, None_,
                     <<"JSONDecodeError", Detail(e)>>)

\* lines 264-272: what the handler of every other exception returns.
FallbackUnparsed(raw, flag) == raw
FallbackValue(raw, flag) ==
    IF flag /\ Tag(raw) = "str" /\ JsonLoads(raw).exc = ""
    THEN JsonLoads(raw).val
    ELSE raw

\* The arguments of a deserialize call and the result of its parse step.
Called(p, input, flag) ==
    /\ pc[p] = "idle"
    /\ raw_data' = [raw_data EXCEPT ![p] = input]
    /\ is_json_string' = [is_json_string EXCEPT ![p] = flag]
    /\ parsed_data' = [parsed_data EXCEPT ![p] = ParsedData(input, flag).val]

\* lines 230-233, 264-272: text form without a str: the DataParsingError is
\* raised inside the try block, so the last handler takes it.
DeserializeNotString(p, input, flag) ==
    /\ Called(p, input, flag)
    /\ ParsedData(input, flag).exc = "DataParsingError"
    /\ pc' = [pc EXCEPT ![p] = "done"]
    /\ outcome' = [outcome EXCEPT ![p] =
                      [kind |-> "return", val |-> FallbackValue(input, flag)]]
    /\ UNCHANGED <<cache, heap, stack, hret, args, expanded, returned>>

\* lines 228, 262-263: the text is not JSON.
DeserializeDecodeError(p, input, flag) ==
    /\ Called(p, input, flag)
    /\ ParsedData(input, flag).exc = "JSONDecodeError"
    /\ pc' = [pc EXCEPT ![p] = "done"]
    /\ outcome' = [outcome EXCEPT ![p] =
                      DecodeErrorOutcome(input, ParsedData(input, flag))]
    /\ UNCHANGED <<cache, heap, stack, hret, args, expanded, returned>>

\* lines 236-243: returned as it is.
DeserializePassThrough(p, input, flag) ==
    /\ Called(p, input, flag)
    /\ ParsedData(input, flag).exc = ""
    /\ NotSerialized(ParsedData(input, flag).val)
    /\ pc' = [pc EXCEPT ![p] = "done"]
    /\ outcome' = [outcome EXCEPT ![p] =
                      [kind |-> "return", val |-> ParsedData(input, flag).val]]
    /\ UNCHANGED <<cache, heap, stack, hret, args, expanded, returned>>

\* lines 252-257: the root index.
RootIndex(parsed) == IF Len(parsed[2]) >= 2 THEN 1 ELSE 0

\* lines 246-257: a fresh cache and the hydrate call for the root.
DeserializeBegin(p, input, flag) ==
    LET parsed == ParsedData(input, flag).val
    IN /\ Called(p, input, flag)
       /\ ParsedData(input, flag).exc = ""
       /\ ~NotSerialized(parsed)
       /\ pc' = [pc EXCEPT ![p] = "deserialize"]
       /\ cache' = [cache EXCEPT ![CacheOf(p)] = NoCache]
       /\ stack' = [stack EXCEPT ![p] = <<NewFrame(I(RootIndex(parsed)))>>]
       /\ args' = [args EXCEPT ![p] = Append(@, I(RootIndex(parsed)))]
       /\ expanded' = [expanded EXCEPT ![p] = [j \in SlotsOf(parsed) |-> 0]]
       /\ returned' = [returned EXCEPT ![p] = [j \in SlotsOf(parsed) |-> <<>>]]
       /\ UNCHANGED <<heap, hret, outcome>>

\* deserialize_nuxt3_data(input, flag) up to its hydrate call.
DeserializeCall(p, input, flag) ==
    \/ DeserializeNotString(p, input, flag)
    \/ DeserializeDecodeError(p, input, flag)
    \/ DeserializePassThrough(p, input, flag)
    \/ DeserializeBegin(p, input, flag)

\* The calls a caller can make, with their inputs.
HydrateFirst(p) ==
    /\ pc[p] = "idle"
    /\ Enter(p, "_hydrate_nuxt3_value")
    /\ \E arg \in TopArgs, data \in ScenarioInputs : HydrateCall(p, data, arg)

HydrateAgain(p) ==
    /\ pc[p] = "hydrate"
    /\ UNCHANGED <<extractor, calendar, entry, extraction_result, deserialize_nuxt3>>
    /\ \E arg \in TopArgs : HydrateCall(p, parsed_data[p], arg)

Deserialize(p) ==
    /\ pc[p] = "idle"
    /\ Enter(p, "deserialize_nuxt3_data")
    /\ \/ \E input \in PlainInputs : DeserializePassThrough(p, input, FALSE)
       \/ \E input \in ScenarioInputs : DeserializeBegin(p, input, FALSE)
       \/ \E k \in 0..(MaxLen - 1) : \E tail \in Tails(k, MaxLen) :
             DeserializeBegin(p, Generated(tail), FALSE)

\* deserialize_nuxt3_data(input), is_json_string left True.
DeserializeText(p) ==
    /\ pc[p] = "idle"
    /\ Enter(p, "deserialize_nuxt3_data")
    /\ \E input \in TextInputs : DeserializeCall(p, input, TRUE)

\* lines 259-260: return result.
DeserializeReturn(p) ==
    /\ pc[p] = "deserialize"
    /\ stack[p] = <<>>
    /\ hret[p].kind = "return"
    /\ pc' = [pc EXCEPT ![p] = "done"]
    /\ outcome' = [outcome EXCEPT ![p] = [kind |-> "return", val |-> hret[p].val]]
    /\ UNCHANGED <<extractor, calendar, entry, extraction_result, deserialize_nuxt3, raw_data,
                   is_json_string, parsed_data, cache, heap, stack, hret, args,
                   expanded, returned>>

\* lines 264-272: any exception of the hydrator gives the raw data back.
DeserializeFallback(p) ==
    /\ pc[p] = "deserialize"
    /\ stack[p] = <<>>
    /\ hret[p].kind = "raise"
    /\ pc' = [pc EXCEPT ![p] = "done"]
    /\ outcome' = [outcome EXCEPT ![p] =
                      [kind |-> "return",
                       val |-> FallbackValue(raw_data[p], is_json_string[p])]]
    /\ UNCHANGED <<extractor, calendar, entry, extraction_result, deserialize_nuxt3, raw_data,
                   is_json_string, parsed_data, cache, heap, stack, hret, args,
                   expanded, returned>>

\* ------------------------------------------------------- parse_nuxt_result
\* dict.get(key)
DictGet(v, key) == IF HasKey(v, key) THEN GetKey(v, key) ELSE None_

\* line 324: not extraction_result or not isinstance(extraction_result, dict)
NoExtractionResult(er) == ~Truthy(er) \/ Tag(er) # "dict"
\* line 331: not data or not method
NoNuxtDataLax(er) ==
    Tag(DictGet(er, "data")) = "none" \/ Tag(DictGet(er, "method")) = "none"
NoNuxtData(er) == ~Truthy(DictGet(er, "data")) \/ ~Truthy(DictGet(er, "method"))

Tuple(value, method) == <<"tuple", <<value, method>>>>

\* The arguments of a parse_nuxt_result call.
ParseCalled(p, er, flag) ==
    /\ pc[p] = "idle"
    /\ entry' = [entry EXCEPT ![p] = "parse_nuxt_result"]
    /\ extraction_result' = [extraction_result EXCEPT ![p] = er]
    /\ deserialize_nuxt3' = [deserialize_nuxt3 EXCEPT ![p] = flag]
    /\ UNCHANGED <<extractor, calendar>>

\* parse_nuxt_result is over without a call of deserialize_nuxt3_data.
ParseEnds(p, result) ==
    /\ pc' = [pc EXCEPT ![p] = "returned"]
    /\ outcome' = [outcome EXCEPT ![p] = result]
    /\ UNCHANGED <<raw_data, is_json_string, parsed_data, cache, heap, stack,
                   hret, args, expanded, returned>>

\* lines 324-325
ParseNoResult(p, er, flag) ==
    /\ ParseCalled(p, er, flag)
    /\ NoExtractionResult(er)
    /\ ParseEnds(p, NuxtDataNotFound("No extraction result received"))

\* lines 327-332
ParseNoData(p, er, flag) ==
    /\ ParseCalled(p, er, flag)
    /\ ~NoExtractionResult(er)
    /\ NoNuxtData(er)
    /\ ParseEnds(p, NuxtDataNotFound(
                        "No Nuxt data found via element or window methods"))

\* Past the checks of lines 324-332.
ParseFound(p, er, flag, method) ==
    /\ ParseCalled(p, er, flag)
    /\ ~NoExtractionResult(er)
    /\ ~NoNuxtData(er)
    /\ DictGet(er, "method") = method

\* lines 337-339 and parse_nuxt_json, lines 289-290: `raw.strip()` on data
\* that is not a str raises AttributeError, which no handler takes.
ParseElementNotString(p, er, flag) ==
    /\ ParseFound(p, er, flag, S("element"))
    /\ Tag(DictGet(er, "data")) # "str"
    /\ ParseEnds(p, [kind |-> "raise", val |-> <<"exc", "AttributeError">>])

\* parse_nuxt_json, lines 289-290: blank content.
ParseElementBlank(p, er, flag) ==
    /\ ParseFound(p, er, flag, S("element"))
    /\ Tag(DictGet(er, "data")) = "str"
    /\ IsBlank(DictGet(er, "data"))
    /\ ParseEnds(p, DataParsingError(<<"Nuxt data content is empty", <<>>>>,
                                     DictGet(er, "data"), None_))

\* The text of the element strategy, ready for json.loads.
ParseElementText(p, er, flag) ==
    /\ ParseFound(p, er, flag, S("element"))
    /\ Tag(DictGet(er, "data")) = "str"
    /\ ~IsBlank(DictGet(er, "data"))

\* parse_nuxt_json, lines 293, 301-306: the content is not JSON.
ParseElementDecodeError(p, er, flag) ==
    LET raw == DictGet(er, "data")
    IN /\ ParseElementText(p, er, flag)
       /\ JsonLoads(raw).exc # ""
       /\ ParseEnds(p, DataParsingError(
                           <<"Failed to parse Nuxt data as JSON: ",
                             Detail(JsonLoads(raw))>>,
                           raw, <<"JSONDecodeError", Detail(JsonLoads(raw))>>))

\* parse_nuxt_json, lines 293-299, without deserialization.
ParseElementPlain(p, er, flag) ==
    LET raw == DictGet(er, "data")
    IN /\ ParseElementText(p, er, flag)
       /\ JsonLoads(raw).exc = ""
       /\ ~flag
       /\ ParseEnds(p, [kind |-> "return",
                        val |-> Tuple(JsonLoads(raw).val, S("element"))])

\* parse_nuxt_json, lines 293-297: deserialize_nuxt3_data(parsed_data, False).
ParseElementUnhydrated(p, er, flag) ==
    LET raw == DictGet(er, "data")
    IN /\ ParseElementText(p, er, flag)
       /\ JsonLoads(raw).exc = ""
       /\ flag
       /\ ParseEnds(p, [kind |-> "return",
                        val |-> Tuple(JsonLoads(raw).val, S("element"))])
ParseElementHydrate(p, er, flag) ==
    LET raw == DictGet(er, "data")
    IN /\ ParseElementText(p, er, flag)
       /\ JsonLoads(raw).exc = ""
       /\ flag
       /\ DeserializeCall(p, JsonLoads(raw).val, FALSE)

\* line 343: deserialize_nuxt3 and isinstance(data, list)
WindowHydratesLists(data, flag) == Tag(data) = "list"
WindowHydrates(data, flag) == flag /\ Tag(data) = "list"

\* lines 340-345: the window strategy without hydration.
ParseWindowPlain(p, er, flag) ==
    /\ ParseFound(p, er, flag, S("window"))
    /\ ~WindowHydrates(DictGet(er, "data"), flag)
    /\ ParseEnds(p, [kind |-> "return",
                     val |-> Tuple(DictGet(er, "data"), S("window"))])

\* lines 343-344: deserialize_nuxt3_data(data, is_json_string=False).
ParseWindowHydrate(p, er, flag) ==
    /\ ParseFound(p, er, flag, S("window"))
    /\ WindowHydrates(DictGet(er, "data"), flag)
    /\ DeserializeCall(p, DictGet(er, "data"), FALSE)

\* line 347: DataParsingError(f"Unknown extraction method: {method}").
UnknownMethodNotFound(method) ==
    NuxtDataNotFound("No Nuxt data found via element or window methods")
UnknownMethodError(method) ==
    DataParsingError(<<"Unknown extraction method: ", method>>, None_, None_)

\* lines 346-347: the DataParsingError is not one of the exceptions the
\* handler of line 349 takes.
ParseUnknownMethod(p, er, flag) ==
    /\ ParseCalled(p, er, flag)
    /\ ~NoExtractionResult(er)
    /\ ~NoNuxtData(er)
    /\ DictGet(er, "method") \notin {S("element"), S("window")}
    /\ ParseEnds(p, UnknownMethodError(DictGet(er, "method")))

\* parse_nuxt_result(extraction_result, deserialize_nuxt3) up to the hydrate
\* call of the deserialization it asks for.
ParseNuxtResult(p) ==
    /\ pc[p] = "idle"
    /\ \E er \in ExtractionResults, flag \in BOOLEAN :
          \/ ParseNoResult(p, er, flag)
          \/ ParseNoData(p, er, flag)
          \/ ParseElementNotString(p, er, flag)
          \/ ParseElementBlank(p, er, flag)
          \/ ParseElementDecodeError(p, er, flag)
          \/ ParseElementPlain(p, er, flag)
          \/ ParseElementHydrate(p, er, flag)
          \/ ParseWindowPlain(p, er, flag)
          \/ ParseWindowHydrate(p, er, flag)
          \/ ParseUnknownMethod(p, er, flag)

\* lines 339, 344: `return <deserialized>, method`.
ParseNuxtResultReturn(p) ==
    /\ pc[p] = "done"
    /\ entry[p] = "parse_nuxt_result"
    /\ pc' = [pc EXCEPT ![p] = "returned"]
    /\ outcome' = [outcome EXCEPT ![p] =
                      [kind |-> "return",
                       val |-> Tuple(outcome[p].val,
                                     DictGet(extraction_result[p], "method"))]]
    /\ UNCHANGED <<extractor, calendar, entry, extraction_result, deserialize_nuxt3, raw_data,
                   is_json_string, parsed_data, cache, heap, stack, hret, args,
                   expanded, returned>>

\* One step of an active _hydrate_nuxt3_value call.
HydrateStep(p) ==
    \/ EnterLiteral(p)
    \/ EnterOutOfBounds(p)
    \/ EnterCached(p)
    \/ EnterPrimitive(p)
    \/ EnterDate(p)
    \/ EnterSet(p)
    \/ EnterMap(p)
    \/ EnterBigInt(p)
    \/ EnterRegExp(p)
    \/ EnterObject(p)
    \/ EnterArray(p)
    \/ LoopCall(p)
    \/ MapCallKey(p)
    \/ MapUnpackError(p)
    \/ MapCallValue(p)
    \/ LoopDone(p)

Next ==
    \E p \in Procs :
        \/ HydrateFirst(p)
        \/ HydrateAgain(p)
        \/ Deserialize(p)
        \/ DeserializeText(p)
        \/ DeserializeReturn(p)
        \/ DeserializeFallback(p)
        \/ ParseNuxtResult(p)
        \/ ParseNuxtResultReturn(p)
        \/ HydrateStep(p)

Spec == Init /\ [][Next]_vars

\* ------------------------------------------- element strategy, side by side
\* Caller 1 gives a text to parse_nuxt_result as the content of the
\* #__NUXT_DATA__ element; caller 2 gives the same text to
\* deserialize_nuxt3_data in text form.
ElementTexts ==
    {"[1", "  ", "[]", "{\"a\":1}", "\"a\"", "[{\"s\":1},{\"k\":\"a\"}]",
     "[{\"s\":1},{\"$b\":null}]", "[{\"k\":0}]", "[{\"s\":1}, [2, true], \"a\"]",
     "[{\"s\":9},{\"$m\":[[2,3]]},{\"$d\":5},{\"$r\":\"/a/i\"}]",
     "[{\"s\":1},{\"$s\":[9,2]},{\"$m\":[[1]]}]"}

InitElement ==
    /\ pc = Off("idle")
    /\ NotCalled

ParseElement(p) ==
    /\ p = 1
    /\ pc[p] = "idle"
    /\ \E text \in ElementTexts, flag \in BOOLEAN :
          LET er == ER(S(text), S("element"))
          IN \/ ParseElementBlank(p, er, flag)
             \/ ParseElementDecodeError(p, er, flag)
             \/ ParseElementPlain(p, er, flag)
             \/ ParseElementHydrate(p, er, flag)

DeserializeSameText(p) ==
    /\ p = 2
    /\ pc[p] = "idle"
    /\ entry[1] = "parse_nuxt_result"
    /\ Enter(p, "deserialize_nuxt3_data")
    /\ LET text == DictGet(extraction_result[1], "data")
       IN \/ DeserializeDecodeError(p, text, TRUE)
          \/ DeserializePassThrough(p, text, TRUE)
          \/ DeserializeBegin(p, text, TRUE)

NextElement ==
    \E p \in Procs :
        \/ ParseElement(p)
        \/ DeserializeSameText(p)
        \/ DeserializeReturn(p)
        \/ DeserializeFallback(p)
        \/ ParseNuxtResultReturn(p)
        \/ HydrateStep(p)

SpecElement == InitElement /\ [][NextElement]_vars

\* ------------------------------------------------------ two calls at once
\* Two callers (threads or tasks) call deserialize_nuxt3_data, each with an
\* array of its own; the steps of their hydrate calls interleave.
ConcurrentInputs ==
    { L(<<Meta, L(<<I(2), I(3), I(1), S("a"), I(9)>>), D1("$d", I(5)),
          D1("$s", L(<<I(2)>>))>>),
      L(<<Meta, D1("$m", L(<< L(<<I(2), I(3)>>) >>)), S("k"),
          D1("$r", S("/a/i"))>>),
      L(<<Meta, D2("f", I(1), "g", I(2)), D1("$b", None_)>>),
      L(<<Meta, D1("$m", L(<< L(<<I(1)>>) >>))>>) }

InitConcurrent ==
    /\ pc = Off("idle")
    /\ NotCalled

DeserializeConcurrent(p) ==
    /\ pc[p] = "idle"
    /\ Enter(p, "deserialize_nuxt3_data")
    /\ \E input \in ConcurrentInputs : DeserializeBegin(p, input, FALSE)

NextConcurrent ==
    \E p \in Procs :
        \/ DeserializeConcurrent(p)
        \/ DeserializeReturn(p)
        \/ DeserializeFallback(p)
        \/ HydrateStep(p)

SpecConcurrent == InitConcurrent /\ [][NextConcurrent]_vars

\* -------------------------------------------------------- NuxtDataExtractor
\* The variables of the parser functions, which the extractor calls as
\* caller 1.
parserVars ==
    <<pc, entry, extraction_result, deserialize_nuxt3, raw_data,
      is_json_string, parsed_data, cache, heap, stack, hret, outcome, args,
      expanded, returned>>

\* The frame of the parse_nuxt_result call a method made before is gone when
\* the next method is called.
LocalsGone(p) ==
    /\ pc' = [pc EXCEPT ![p] = "idle"]
    /\ entry' = [entry EXCEPT ![p] = ""]
    /\ extraction_result' = [extraction_result EXCEPT ![p] = None_]
    /\ deserialize_nuxt3' = [deserialize_nuxt3 EXCEPT ![p] = FALSE]
    /\ raw_data' = [raw_data EXCEPT ![p] = None_]
    /\ is_json_string' = [is_json_string EXCEPT ![p] = FALSE]
    /\ parsed_data' = [parsed_data EXCEPT ![p] = None_]
    /\ cache' = [cache EXCEPT ![p] = NoCache]
    /\ heap' = [heap EXCEPT ![p] = <<>>]
    /\ stack' = [stack EXCEPT ![p] = <<>>]
    /\ hret' = [hret EXCEPT ![p] = NoResult]
    /\ outcome' = [outcome EXCEPT ![p] = NoResult]
    /\ args' = [args EXCEPT ![p] = <<>>]
    /\ expanded' = [expanded EXCEPT ![p] = NoSlots]
    /\ returned' = [returned EXCEPT ![p] = NoSlots]

\* The exceptions of the extractor, as the outcome of a call.
RuntimeError(message) ==
    [kind |-> "raise", val |-> <<"exc", "RuntimeError">>, message |-> message]
BrowserError(message) ==
    [kind |-> "raise", val |-> <<"exc", "BrowserError">>, message |-> message]
ProxyError(message) ==
    [kind |-> "raise", val |-> <<"exc", "ProxyError">>, message |-> message]
\* What Playwright raises when the page does not do what it is asked.
PlaywrightError(message) ==
    [kind |-> "raise", val |-> <<"exc", "Error">>, message |-> message]
\* NavigationStepFailed(step, original_error), exceptions.py lines 25-34: the
\* message is f"Step failed: {original_error!s}".
NavigationStepFailed(original_error) ==
    [kind |-> "raise", val |-> <<"exc", "NavigationStepFailed">>,
     message |-> <<"Step failed: ", original_error.message>>,
     original_error |-> original_error]
ReturnNone == [kind |-> "return", val |-> None_]

\* No call is under way on the extractor.
NoCall == extractor.at \in {"idle", "over"}

\* _start, lines 98-154, as __aenter__ runs it: Playwright, the browser and
\* the context are started in this order.
StartSucceeds ==
    /\ NoCall
    /\ extractor.lifecycle # "started"
    /\ extractor' = [extractor EXCEPT !._playwright = TRUE, !._browser = TRUE,
                                      !._context = TRUE, !.pages = 0,
                                      !.lifecycle = "started",
                                      !.method = "_start", !.at = "over",
                                      !.result = ReturnNone]
    /\ UNCHANGED <<parserVars, calendar>>

\* _start, lines 156-164: a failure at stage `stage` (1: starting Playwright,
\* 2: launching the browser, 3: opening the context, 4: adding the init
\* scripts) leaves what the earlier stages assigned and raises ProxyError with
\* a proxy, BrowserError without.
StartFails ==
    /\ NoCall
    /\ extractor.lifecycle # "started"
    /\ \E stage \in 1..4, proxy \in BOOLEAN :
          extractor' = [extractor EXCEPT
                           !._playwright = @ \/ stage > 1,
                           !._browser = @ \/ stage > 2,
                           !._context = @ \/ stage > 3,
                           !.pages = 0,
                           !.lifecycle = "failed",
                           !.method = "_start", !.at = "over",
                           !.result =
                               IF proxy
                               THEN ProxyError("Failed to launch browser with proxy")
                               ELSE BrowserError("Failed to launch browser")]
    /\ UNCHANGED <<parserVars, calendar>>

\* _stop, lines 166-176 as __aexit__ runs it: whatever is held is closed and
\* set to None; the pages of the context close with it.
Stop ==
    /\ NoCall
    /\ extractor.lifecycle \in {"started", "failed"}
    /\ extractor' = [extractor EXCEPT !._playwright = FALSE, !._browser = FALSE,
                                      !._context = FALSE, !.pages = 0,
                                      !.lifecycle = "stopped",
                                      !.method = "_stop", !.at = "over",
                                      !.result = ReturnNone]
    /\ UNCHANGED <<parserVars, calendar>>

\* The public methods that begin with self._ensure_started().
Methods ==
    {"extract", "navigate", "execute_step", "extract_from_current_page",
     "extract_with_api_capture"}

\* _ensure_started, line 179: `if not self._context`
NotStartedNoBrowser(e) == ~e._browser
NotStarted(e) == ~e._context

\* A method is called: the record of the call before is replaced.
MethodCalled(m) ==
    [extractor EXCEPT !.method = m, !.own = FALSE, !.evaluations = <<>>,
                      !.combined = NoResult, !.result = NoResult,
                      !.opened = 0, !.touched = 0]

\* _ensure_started, lines 178-182, as the first statement of the method.
CallNotStarted(m) ==
    /\ NoCall
    /\ NotStarted(extractor)
    /\ extractor' = [MethodCalled(m) EXCEPT
                        !.at = "over",
                        !.result = RuntimeError("Extractor not started. Use async with NuxtDataExtractor() or start().")]
    /\ LocalsGone(1)
    /\ UNCHANGED calendar

\* extract_from_current_page, lines 320-322, and execute_step, lines 357-359:
\* `if not pages: raise BrowserError("No active pages found")`.
CallNoPage(m) ==
    /\ NoCall
    /\ ~NotStarted(extractor)
    /\ m \in {"execute_step", "extract_from_current_page"}
    /\ extractor.pages = 0
    /\ extractor' = [MethodCalled(m) EXCEPT
                        !.at = "over",
                        !.result = BrowserError("No active pages found")]
    /\ LocalsGone(1)
    /\ UNCHANGED calendar

\* extract, line 212, and navigate and extract_with_api_capture without a
\* page, lines 344 and 452: `page = await self._context.new_page()`; the
\* capture attaches its response handler to the page (line 454).
CallOpensPage(m) ==
    /\ NoCall
    /\ ~NotStarted(extractor)
    /\ \/ m = "extract"
       \/ m \in {"navigate", "extract_with_api_capture"} /\ extractor.pages = 0
    /\ extractor' = [MethodCalled(m) EXCEPT
                        !.at = "page", !.own = (m = "extract"),
                        !.pages = @ + 1, !.opened = 1,
                        !.touched = IF m = "extract_with_api_capture"
                                    THEN 1 ELSE 0]
    /\ LocalsGone(1)
    /\ UNCHANGED calendar

\* navigate, execute_step, extract_from_current_page and
\* extract_with_api_capture with a page: `page = pages[0]`; the capture
\* attaches its response handler to it (line 454).
CallCurrentPage(m) ==
    /\ NoCall
    /\ ~NotStarted(extractor)
    /\ m \in Methods \ {"extract"}
    /\ extractor.pages > 0
    /\ extractor' = [MethodCalled(m) EXCEPT
                        !.at = CASE m = "execute_step" -> "steps"
                                 [] m = "extract_from_current_page" -> "loaded"
                                 [] OTHER -> "page",
                        !.touched = IF m = "extract_with_api_capture"
                                    THEN 1 ELSE 0]
    /\ LocalsGone(1)
    /\ UNCHANGED calendar

\* The method called is over with `result`: extract closes the page it
\* opened (lines 225-226, `finally: await page.close()`).
Finished(e, result) ==
    [e EXCEPT !.at = "over", !.result = result, !.own = FALSE,
              !.pages = IF e.own THEN @ - 1 ELSE @,
              !.touched = IF e.own THEN @ + 1 ELSE @]

\* await page.goto(url, ...), lines 214, 346 and 458: the page loads, or the
\* navigation fails and its exception leaves the method.
Goto ==
    /\ extractor.at = "page"
    /\ LET e == [extractor EXCEPT !.touched = @ + 1]
       IN \/ extractor' = IF extractor.method = "navigate"
                          THEN Finished(e, ReturnNone)
                          ELSE [e EXCEPT !.at = "loaded"]
          \/ extractor' = Finished(e, PlaywrightError("goto"))
    /\ UNCHANGED <<parserVars, calendar>>

\* execute_step, line 362: execute_steps(page, [step], ...) runs the step on
\* the page; the step succeeds or fails.
ExecuteSteps ==
    /\ extractor.at = "steps"
    /\ LET e == [extractor EXCEPT !.touched = @ + 1]
       IN \/ extractor' = Finished(e, ReturnNone)
          \/ extractor' = Finished(e, NavigationStepFailed(PlaywrightError("step")))
    /\ UNCHANGED <<parserVars, calendar>>

\* What EXTRACT_NUXT_COMBINED_SCRIPT (parser.py lines 39-70) gives for a page:
\* nothing found, the text of the #__NUXT_DATA__ element, or window.__NUXT__
\* with its JSON text; None stands for a page that gives no result at all.
ScriptResult(data, method, raw) ==
    D(<< <<"data", data>>, <<"method", method>>, <<"raw", raw>> >>)
Evaluations ==
    {None_, ScriptResult(None_, None_, None_)}
    \cup {ScriptResult(S(text), S("element"), S(text)) :
             text \in ElementTexts \ {"  "}}
    \cup {ScriptResult(L(<<>>), S("window"), S("[]")),
          ScriptResult(D1("a", I(1)), S("window"), S("{\"a\":1}")),
          ScriptResult(L(<<Meta, D1("k", S("a"))>>), S("window"),
                       S("[{\"state\":1},{\"k\":\"a\"}]"))}

\* _extract_combined, line 247:
\* `not extraction_result or not extraction_result.get('data')`, negated.
FirstHasAnything(r) == Truthy(r)
FirstHasData(r) == Truthy(r) /\ Truthy(DictGet(r, "data"))

\* _extract_combined, line 244: the first page.evaluate.
EvaluateFirst ==
    /\ extractor.at = "loaded"
    /\ \E r \in Evaluations :
          extractor' = [extractor EXCEPT
                           !.touched = @ + 1,
                           !.evaluations = <<r>>,
                           !.at = IF FirstHasData(r) THEN "evaluated"
                                  ELSE "retry"]
    /\ UNCHANGED <<parserVars, calendar>>

\* _extract_combined, lines 247-250: the second page.evaluate, three seconds
\* later.
EvaluateAgain ==
    /\ extractor.at = "retry"
    /\ \E r \in Evaluations :
          extractor' = [extractor EXCEPT
                           !.touched = @ + 1,
                           !.evaluations = Append(@, r),
                           !.at = "evaluated"]
    /\ UNCHANGED <<parserVars, calendar>>

\* validate_combined_result, parser.py lines 388-392: the exception it raises
\* for `r`, or NoResult when it returns.
ValidateCombined(r) ==
    IF ~Truthy(r) \/ Tag(r) # "dict"
    THEN NuxtDataNotFound("No valid extraction result received")
    ELSE IF ~Truthy(DictGet(r, "data")) \/ ~Truthy(DictGet(r, "method"))
         THEN NuxtDataNotFound("No Nuxt data found via #__NUXT_DATA__ element or window.__NUXT__")
         ELSE NoResult

\* The result of the last page.evaluate.
LastEvaluation(e) == e.evaluations[Len(e.evaluations)]

\* How the method ends when _extract_combined has ended with `combined`:
\* extract and extract_from_current_page return what it returns,
\* extract_with_api_capture pairs it with the responses it captured (none
\* here), and its exception leaves all three.
MethodResult(m, combined) ==
    IF combined.kind = "return" /\ m = "extract_with_api_capture"
    THEN [kind |-> "return", val |-> Tuple(combined.val, L(<<>>))]
    ELSE combined

\* _extract_combined, line 252: validate_combined_result raises.
CombinedNotFound ==
    /\ extractor.at = "evaluated"
    /\ pc[1] = "idle"
    /\ ValidateCombined(LastEvaluation(extractor)) # NoResult
    /\ LET combined == ValidateCombined(LastEvaluation(extractor))
       IN extractor' = Finished([extractor EXCEPT !.combined = combined],
                                MethodResult(extractor.method, combined))
    /\ UNCHANGED <<parserVars, calendar>>

\* _extract_combined, lines 252-253: the result is valid and
\* parse_nuxt_result(extraction_result, deserialize_nuxt3) is called with it;
\* deserialize_nuxt3 is the argument of the method.
CombinedParse ==
    /\ extractor.at = "evaluated"
    /\ pc[1] = "idle"
    /\ ValidateCombined(LastEvaluation(extractor)) = NoResult
    /\ \E flag \in BOOLEAN :
          LET er == LastEvaluation(extractor)
          IN \/ ParseElementDecodeError(1, er, flag)
             \/ ParseElementPlain(1, er, flag)
             \/ ParseElementHydrate(1, er, flag)
             \/ ParseWindowPlain(1, er, flag)
             \/ ParseWindowHydrate(1, er, flag)

\* `data, method = ...; return data` (lines 253-256) of the tuple
\* parse_nuxt_result returned, or the exception it raised.
CombinedOutcome(parsed) ==
    IF parsed.kind = "return"
    THEN [kind |-> "return", val |-> parsed.val[2][1]]
    ELSE parsed

\* _extract_combined, lines 253-256, once parse_nuxt_result is over.
CombinedReturn ==
    /\ extractor.at = "evaluated"
    /\ pc[1] = "returned"
    /\ LET combined == CombinedOutcome(outcome[1])
       IN extractor' = Finished([extractor EXCEPT !.combined = combined],
                                MethodResult(extractor.method, combined))
    /\ UNCHANGED <<parserVars, calendar>>

NextExtractor ==
    \/ StartSucceeds
    \/ StartFails
    \/ Stop
    \/ \E m \in Methods :
          \/ CallNotStarted(m)
          \/ CallNoPage(m)
          \/ CallOpensPage(m)
          \/ CallCurrentPage(m)
    \/ Goto
    \/ ExecuteSteps
    \/ EvaluateFirst
    \/ EvaluateAgain
    \/ CombinedNotFound
    \/ CombinedParse
    \/ CombinedReturn
    \/ DeserializeReturn(1)
    \/ DeserializeFallback(1)
    \/ ParseNuxtResultReturn(1)
    \/ HydrateStep(1)

SpecExtractor == Init /\ [][NextExtractor]_vars

\* ------------------------------------------------------- SELECT_DATE steps
\* The target date of the step (tests/test_steps.py line 348).
TargetDate == "2028-01-01"

ValueError(message) ==
    [kind |-> "raise", val |-> <<"exc", "ValueError">>, message |-> message]
\* DateNotFoundInCalendarError(target_date, message), exceptions.py lines
\* 77-84: the message is f"{message}: {target_date}".
DateNotFoundInCalendarError(target_date, message) ==
    [kind |-> "raise", val |-> <<"exc", "DateNotFoundInCalendarError">>,
     target_date |-> target_date, message |-> <<message, target_date>>]

\* _handle_select_date raises `e`. execute_step, steps.py lines 446-512, runs
\* the handler of the step inside
\* `try: ... except Exception as e: raise NavigationStepFailed(step, e)`, so
\* whatever the handler raises leaves execute_step wrapped.
SelectDateRaises(e) ==
    [calendar EXCEPT !.at = "over", !.raised = e,
                     !.result = NavigationStepFailed(e)]

\* lines 213-221: a parameter of the step is missing.
SelectDateMissing ==
    /\ calendar.at = "idle"
    /\ calendar' = SelectDateRaises(NavigationStepFailed(
                       ValueError("Missing required date selection parameters")))
    /\ UNCHANGED <<parserVars, extractor>>

\* lines 238-252: no calendar selector is visible.
SelectDateNoCalendar ==
    /\ calendar.at = "idle"
    /\ calendar' = SelectDateRaises(NavigationStepFailed(
                       ValueError("Calendar not visible")))
    /\ UNCHANGED <<parserVars, extractor>>

\* lines 238-258: the calendar is visible and the loop begins.
SelectDateOpen ==
    /\ calendar.at = "idle"
    /\ calendar' = [calendar EXCEPT !.at = "loop"]
    /\ UNCHANGED <<parserVars, extractor>>

\* One more iteration of `for attempt in range(120)` is to run.
InLoop == calendar.at = "loop" /\ calendar.attempt < MaxAttempts

\* lines 259-285: no selector gives a month and a year; the first five
\* attempts go on to the next one, a later one raises.
LoopUnreadable ==
    /\ InLoop
    /\ calendar' =
          IF calendar.attempt < 5
          THEN [calendar EXCEPT !.attempt = @ + 1, !.display = "unreadable"]
          ELSE [SelectDateRaises(NavigationStepFailed(
                    ValueError("Could not read current month/year display")))
                EXCEPT !.display = "unreadable"]
    /\ UNCHANGED <<parserVars, extractor>>

\* lines 288-289: the display shows the target month and year: break.
LoopTarget ==
    /\ InLoop
    /\ calendar' = [calendar EXCEPT !.at = "day", !.display = "target"]
    /\ UNCHANGED <<parserVars, extractor>>

\* lines 292-295: the month shown is no month name.
LoopUnknownMonth ==
    /\ InLoop
    /\ calendar' = [SelectDateRaises(NavigationStepFailed(
                        ValueError("Could not parse month name")))
                    EXCEPT !.display = "unknown"]
    /\ UNCHANGED <<parserVars, extractor>>

\* lines 297-321: the display shows a month before or after the target one
\* and the next or the prev button is clicked.
LoopClick ==
    /\ InLoop
    /\ \E shown \in {"earlier", "later"} :
          calendar' = [calendar EXCEPT !.attempt = @ + 1, !.display = shown,
                                       !.clicks = @ + 1]
    /\ UNCHANGED <<parserVars, extractor>>

\* lines 301-315: the button to click is not there.
LoopNoButton ==
    /\ InLoop
    /\ \E shown \in {"earlier", "later"} :
          calendar' = [SelectDateRaises(NavigationStepFailed(
                           ValueError("Could not find or click prev/next button")))
                       EXCEPT !.display = shown]
    /\ UNCHANGED <<parserVars, extractor>>

\* lines 323-324: the `else` of the loop, after 120 attempts without a break.
LoopExhausted ==
    /\ calendar.at = "loop"
    /\ calendar.attempt = MaxAttempts
    /\ calendar' = SelectDateRaises(DateNotFoundInCalendarError(
                       TargetDate, "Target month not reached in calendar"))
    /\ UNCHANGED <<parserVars, extractor>>

\* lines 326-399 and 503-509: the day is clicked and execute_step returns.
DayClicked ==
    /\ calendar.at = "day"
    /\ calendar' = [calendar EXCEPT !.at = "over", !.clicks = @ + 1,
                                    !.result = ReturnNone]
    /\ UNCHANGED <<parserVars, extractor>>

\* lines 365-366: no cell of the day could be clicked.
DayNotFound ==
    /\ calendar.at = "day"
    /\ calendar' = SelectDateRaises(DateNotFoundInCalendarError(
                       TargetDate, "Failed to find or click day"))
    /\ UNCHANGED <<parserVars, extractor>>

NextCalendar ==
    \/ SelectDateMissing
    \/ SelectDateNoCalendar
    \/ SelectDateOpen
    \/ LoopUnreadable
    \/ LoopTarget
    \/ LoopUnknownMonth
    \/ LoopClick
    \/ LoopNoButton
    \/ LoopExhausted
    \/ DayClicked
    \/ DayNotFound

SpecCalendar == Init /\ [][NextCalendar]_vars

\* ------------------------------------------------ reading a hydrated result
Last(s) == s[Len(s)]
IsRef(v) == Tag(v) = "ref"
Obj(p, v) == heap[p][v[2]]

\* result[key] of a hydrated dict
HasField(p, v, key) ==
    /\ IsRef(v) /\ Obj(p, v)[1] = "dict"
    /\ \E j \in 1..Len(Obj(p, v)[2]) : Obj(p, v)[2][j][1] = S(key)
Field(p, v, key) ==
    LET pairs == Obj(p, v)[2]
    IN pairs[CHOOSE j \in 1..Len(pairs) : pairs[j][1] = S(key)][2]

\* Addresses an allocated object refers to directly (members, items, keys
\* and values).
Succ(p, a) ==
    LET o == heap[p][a]
        vals == CASE o[1] = "set" -> o[2]
                  [] o[1] = "list" -> SeqToSet(o[2])
                  [] o[1] = "dict" -> UNION {{kv[1], kv[2]} : kv \in SeqToSet(o[2])}
    IN {v[2] : v \in {w \in vals : IsRef(w)}}

RECURSIVE Closure(_, _, _)
Closure(p, seen, frontier) ==
    IF frontier \subseteq seen THEN seen
    ELSE Closure(p, seen \cup frontier,
                 UNION {Succ(p, a) : a \in frontier} \ (seen \cup frontier))
\* The object at address a is reachable from itself.
ReachesItself(p, a) == a \in Closure(p, {}, Succ(p, a))

\* A payload of slot references, and a payload of pairs of them.
IsRefList(v) == Tag(v) = "list" /\ \A j \in 1..Len(v[2]) : Tag(v[2][j]) = "int"
IsPairList(v) ==
    /\ Tag(v) = "list"
    /\ \A j \in 1..Len(v[2]) : IsRefList(v[2][j]) /\ Len(v[2][j][2]) = 2

\* Slot references of a slot value, as the serialization format defines
\* them: the integers in a sequence, in the fields of a plain mapping, in a
\* set payload and in the pairs of a map payload.
IntsOf(items) == {v[2] : v \in {w \in SeqToSet(items) : Tag(w) = "int"}}
SlotRefs(v) ==
    CASE Tag(v) = "list" -> IntsOf(v[2])
      [] Tag(v) = "dict" /\ Marker(v) = "" ->
            IntsOf([j \in 1..Len(v[2]) |-> v[2][j][2]])
      [] Tag(v) = "dict" /\ Marker(v) = "$s" /\ IsRefList(GetKey(v, "$s")) ->
            IntsOf(GetKey(v, "$s")[2])
      [] Tag(v) = "dict" /\ Marker(v) = "$m" /\ IsPairList(GetKey(v, "$m")) ->
            UNION {IntsOf(e[2]) : e \in SeqToSet(GetKey(v, "$m")[2])}
      [] OTHER -> {}

\* A slot value of the shape the format defines for a primitive, a sequence,
\* a plain mapping, a set marker or a map marker.
WellFormedSlot(v) ==
    \/ IsPrimitive(v)
    \/ Tag(v) = "list"
    \/ Tag(v) = "dict" /\ Marker(v) = ""
    \/ Tag(v) = "dict" /\ Marker(v) = "$s" /\ IsRefList(GetKey(v, "$s"))
    \/ Tag(v) = "dict" /\ Marker(v) = "$m" /\ IsPairList(GetKey(v, "$m"))

SlotSucc(p, i) == {j \in SlotRefs(Slot(p, i)) : j >= 0 /\ j < ArrLen(p)}
RECURSIVE SlotClosure(_, _, _)
SlotClosure(p, seen, frontier) ==
    IF frontier \subseteq seen THEN seen
    ELSE SlotClosure(p, seen \cup frontier,
                     UNION {SlotSucc(p, i) : i \in frontier} \ (seen \cup frontier))
\* Slot i lies on a reference cycle.
OnCycle(p, i) == i \in SlotClosure(p, {}, SlotSucc(p, i))
\* Slots reachable from slot i by references, i included.
ReachableSlots(p, i) == SlotClosure(p, {}, {i})

Serialized(p) == Tag(parsed_data[p]) = "list" /\ ArrLen(p) > 0
\* The outermost hydrate call is over.
CallOver(p) == stack[p] = <<>> /\ hret[p].kind # "none"

\* ------------------------------------------------------------------ claims

\* C1: whenever a recursive hydrate call for a child of a compound slot (plain
\* mapping, sequence, set marker, map marker) has begun, the cache already
\* holds that slot's result container under the slot's index.
C1_CachedBeforeChildren ==
    \A p \in Procs : \A k \in 1..(Len(stack[p]) - 1) :
        LET f == stack[p][k]
        IN /\ f.kind \in {"dict", "list", "set", "map"}
           /\ f.slot \in DOMAIN cache[p]
           /\ cache[p][f.slot] = Ref(f.addr)

\* A child call of a map marker nested in another compound slot has begun.
C1_Witness ==
    /\ Len(stack[1]) >= 3
    /\ Top(1).pc = "enter"
    /\ stack[1][Len(stack[1]) - 1].kind = "map"
    /\ stack[1][1].kind \in {"dict", "list", "set"}

\* C2: for an array of well-formed slots whose slot references form a cycle
\* reachable from the root, the hydrate call for the root returns, and the
\* result of every slot on the cycle is a container that leads back to
\* itself.
C2_CycleBackReference ==
    \A p \in Procs :
        (Serialized(p) /\ args[p] # <<>> /\ CallOver(p)
            /\ Tag(Last(args[p])) = "int" /\ InBounds(p, Last(args[p]))
            /\ \A i \in ReachableSlots(p, IntValue(Last(args[p]))) :
                   WellFormedSlot(Slot(p, i)))
        => \A i \in ReachableSlots(p, IntValue(Last(args[p]))) :
              OnCycle(p, i)
              => /\ hret[p].kind = "return"
                 /\ i \in DOMAIN cache[p]
                 /\ IsRef(cache[p][i])
                 /\ ReachesItself(p, cache[p][i][2])

Scenario1 == L(<<Meta, D2("name", S("test"), "value", I(42))>>)
Scenario2 ==
    L(<<Meta, D1("users", L(<<I(2), I(3)>>)),
        D2("id", I(1), "name", S("Alice")), D2("id", I(2), "name", S("Bob"))>>)

\* C3: integer-valued fields keep their number: scenario 1 gives value 42,
\* scenario 2 gives users whose id fields are 1 and 2.
C3_IntegerFieldsKept ==
    \A p \in Procs :
        pc[p] = "done"
        => /\ raw_data[p] = Scenario1
              => /\ HasField(p, outcome[p].val, "value")
                 /\ Field(p, outcome[p].val, "value") = I(42)
           /\ raw_data[p] = Scenario2
              => /\ HasField(p, outcome[p].val, "users")
                 /\ LET users == Field(p, outcome[p].val, "users")
                    IN /\ IsRef(users) /\ Obj(p, users)[1] = "list"
                       /\ Len(Obj(p, users)[2]) = 2
                       /\ \A j \in 1..2 :
                            /\ HasField(p, Obj(p, users)[2][j], "id")
                            /\ Field(p, Obj(p, users)[2][j], "id") = I(j)

Scenario4 ==
    L(<<Meta, D1("tags", D1("$s", L(<<I(2), I(3)>>))), S("admin"), S("user")>>)

\* C4: a tagged mapping met inline as a field value is decoded: scenario 4
\* gives tags as the set {'admin', 'user'}.
C4_InlineMarkerDecoded ==
    \A p \in Procs :
        (pc[p] = "done" /\ raw_data[p] = Scenario4)
        => /\ HasField(p, outcome[p].val, "tags")
           /\ LET tags == Field(p, outcome[p].val, "tags")
              IN /\ IsRef(tags)
                 /\ Obj(p, tags) = <<"set", {S("admin"), S("user")}>>

\* Items of a raw sequence that are not integer slot references.
LiteralItems(v) == {j \in 1..Len(v[2]) : Tag(v[2][j]) # "int"}

\* C5: a value that is not an integer slot reference comes back unchanged,
\* passed directly to hydrate or met as an item of a hydrated sequence; a
\* boolean is such a value.
C5_LiteralUnchanged ==
    \A p \in Procs :
        /\ (pc[p] = "hydrate" /\ args[p] # <<>> /\ CallOver(p)
                /\ Tag(Last(args[p])) # "int")
           => hret[p] = [kind |-> "return", val |-> Last(args[p])]
        /\ (pc[p] = "done" /\ Serialized(p) /\ hret[p].kind = "return"
                /\ Tag(Slot(p, RootIndex(raw_data[p]))) = "list")
           => LET root == Slot(p, RootIndex(raw_data[p]))
              IN /\ IsRef(outcome[p].val)
                 /\ \A j \in LiteralItems(root) :
                        Obj(p, outcome[p].val)[2][j] = root[2][j]

\* C6: all hydrate calls for one in-bounds slot index on one cache return
\* the identical object.
C6_SameObjectPerSlot ==
    \A p \in Procs : \A i \in DOMAIN returned[p] :
        \A j, k \in 1..Len(returned[p][i]) : returned[p][i][j] = returned[p][i][k]

\* Two direct calls for the same slot on one cache have returned a container.
C6_Witness ==
    /\ pc[1] = "hydrate" /\ Len(args[1]) = 2 /\ CallOver(1)
    /\ args[1][1] = args[1][2]
    /\ InBounds(1, args[1][1])
    /\ Len(returned[1][IntValue(args[1][1])]) >= 2
    /\ IsRef(hret[1].val)

\* C7: within one hydration run no slot is expanded more than once.
C7_ExpandedAtMostOnce ==
    \A p \in Procs : \A i \in DOMAIN expanded[p] : expanded[p][i] <= 1

\* A run is over in which a slot on a reference cycle was asked for twice or
\* more and expanded once.
C7_Witness ==
    /\ pc[1] = "done" /\ Serialized(1)
    /\ \E i \in DOMAIN expanded[1] :
        /\ OnCycle(1, i)
        /\ expanded[1][i] = 1
        /\ Len(returned[1][i]) >= 2

\* C8: the hydrator never raises, whatever tagged payload a slot holds.
C8_NeverRaises ==
    \A p \in Procs : hret[p].kind # "raise"

MalformedFallback ==
    { D1("$d", S("x")), D1("$s", S("not_an_array")), D1("$m", S("not_an_array")),
      D1("$b", None_) }

\* C9: a malformed date, set, map or bigint marker hydrates to the tagged
\* mapping itself, in a slot of its own or inline in a field.
C9_MalformedGivesMapping ==
    \A p \in Procs :
        /\ (Serialized(p) /\ args[p] # <<>> /\ CallOver(p)
                /\ Tag(Last(args[p])) = "int" /\ InBounds(p, Last(args[p]))
                /\ Slot(p, IntValue(Last(args[p]))) \in MalformedFallback)
           => hret[p] = [kind |-> "return",
                         val |-> Slot(p, IntValue(Last(args[p])))]
        /\ (pc[p] = "done" /\ Serialized(p) /\ ArrLen(p) >= 2
                /\ Tag(Slot(p, 1)) = "dict" /\ Marker(Slot(p, 1)) = "")
           => \A j \in 1..Len(Slot(p, 1)[2]) :
                 Slot(p, 1)[2][j][2] \in MalformedFallback
                 => /\ HasField(p, outcome[p].val, Slot(p, 1)[2][j][1])
                    /\ Field(p, outcome[p].val, Slot(p, 1)[2][j][1])
                          = Slot(p, 1)[2][j][2]

\* C10: a malformed tagged value reached from field f leaves the rest alone:
\* deserialize returns the hydrated root, with field g resolved.
C10_FailureStaysLocal ==
    \A p \in Procs :
        (pc[p] = "done" /\ Serialized(p) /\ ArrLen(p) = 3
            /\ Slot(p, 1) = D2("f", I(2), "g", S("ok"))
            /\ Tag(Slot(p, 2)) = "dict" /\ Marker(Slot(p, 2)) # "")
        => /\ HasField(p, outcome[p].val, "g")
           /\ Field(p, outcome[p].val, "g") = S("ok")

\* The last outermost hydrate call was for in-bounds slot index i and is over.
HydratedSlot(p, i) ==
    /\ Serialized(p) /\ args[p] # <<>> /\ CallOver(p)
    /\ Last(args[p]) = I(i) /\ InBounds(p, I(i))

NullRegExp == D1("$r", None_)

\* C11: a regexp marker whose payload is null hydrates to null, in a slot of
\* its own and as the value of a field.
C11_NullRegExpGivesNull ==
    \A p \in Procs :
        /\ \A i \in 0..(MaxLen + 1) :
              (HydratedSlot(p, i) /\ Slot(p, i) = NullRegExp)
              => hret[p] = [kind |-> "return", val |-> None_]
        /\ (pc[p] = "done" /\ Serialized(p)
                /\ parsed_data[p] = L(<<Meta, D2("f", I(2), "g", S("ok")), NullRegExp>>))
           => /\ HasField(p, outcome[p].val, "f")
              /\ Field(p, outcome[p].val, "f") = None_

\* A str that is not of the form /pattern/flags.
NotPatternForm(v) ==
    /\ Tag(v) = "str"
    /\ LET cs == StrChars(v[2])
       IN ~(Len(cs) >= 1 /\ cs[1] = "/" /\ \E j \in 2..Len(cs) : cs[j] = "/")
IsBadRegExp(v) ==
    /\ Tag(v) = "dict" /\ Len(v[2]) = 1 /\ HasKey(v, "$r")
    /\ NotPatternForm(GetKey(v, "$r"))

\* C12: a regexp marker whose payload is a string not of the form
\* /pattern/flags hydrates to that string, in a slot of its own and as the
\* value of a field of the root mapping.
C12_BadRegExpGivesString ==
    \A p \in Procs :
        /\ \A i \in 0..(MaxLen + 4) :
              (HydratedSlot(p, i) /\ IsBadRegExp(Slot(p, i)))
              => hret[p] = [kind |-> "return", val |-> GetKey(Slot(p, i), "$r")]
        /\ (pc[p] = "done" /\ Serialized(p) /\ ArrLen(p) >= 2
                /\ hret[p].kind = "return"
                /\ Tag(Slot(p, 1)) = "dict" /\ Marker(Slot(p, 1)) = "")
           => \A j \in 1..Len(Slot(p, 1)[2]) :
                 IsBadRegExp(Slot(p, 1)[2][j][2])
                 => /\ HasField(p, outcome[p].val, Slot(p, 1)[2][j][1])
                    /\ Field(p, outcome[p].val, Slot(p, 1)[2][j][1])
                          = GetKey(Slot(p, 1)[2][j][2], "$r")

\* An integer that is no index of the array.
OutRef(p, v) == Tag(v) = "int" /\ ~InBounds(p, v)

DeserializeOver(p) == entry[p] = "deserialize_nuxt3_data" /\ pc[p] = "done"

\* C14: deserialize in text form with an input that is not a string fails
\* with a DataParsingError and returns no value.
C14_NonStringTextRaises ==
    \A p \in Procs :
        (DeserializeOver(p) /\ is_json_string[p] /\ Tag(raw_data[p]) # "str")
        => /\ outcome[p].kind = "raise"
           /\ outcome[p].val = <<"exc", "DataParsingError">>

\* The input text of a text-form call is not JSON.
InvalidText(p) ==
    /\ is_json_string[p] /\ Tag(raw_data[p]) = "str"
    /\ JsonLoads(raw_data[p]).exc = "JSONDecodeError"

\* C15: deserialize in text form with a string that is not valid JSON raises
\* DataParsingError, whose message and cause carry the decode error; no
\* value is returned in its place.
C15_InvalidJsonRaises ==
    \A p \in Procs :
        (DeserializeOver(p) /\ InvalidText(p))
        => /\ outcome[p].kind = "raise"
           /\ outcome[p].val = <<"exc", "DataParsingError">>
           /\ outcome[p].cause[1] = "JSONDecodeError"
           /\ outcome[p].cause[2] = Detail(JsonLoads(raw_data[p]))
           /\ outcome[p].message[2] = Detail(JsonLoads(raw_data[p]))

\* The truncated text "[1" was refused with the position of the error.
C15_Witness ==
    /\ DeserializeOver(1)
    /\ raw_data[1] = S("[1")
    /\ outcome[1].kind = "raise"
    /\ outcome[1].cause = <<"JSONDecodeError", <<"Expecting ',' delimiter", 2>>>>

ParseStepOk(p) ==
    \/ ~is_json_string[p]
    \/ Tag(raw_data[p]) = "str" /\ JsonLoads(raw_data[p]).exc = ""
\* The value the parse step gives: the input, or the parse of the text.
ParsedValue(p) ==
    IF is_json_string[p] THEN JsonLoads(raw_data[p]).val ELSE raw_data[p]

\* C17: a parsed or directly supplied value that is not a sequence, or is an
\* empty sequence, is returned as it is, with no hydrate call.
C17_NotSerializedUnchanged ==
    \A p \in Procs :
        (pc[p] \in {"deserialize", "done"} /\ ParseStepOk(p)
            /\ (Tag(ParsedValue(p)) # "list" \/ ParsedValue(p)[2] = <<>>))
        => /\ pc[p] = "done"
           /\ outcome[p] = [kind |-> "return", val |-> ParsedValue(p)]
           /\ args[p] = <<>> /\ heap[p] = <<>> /\ cache[p] = NoCache

\* The text "[]" came back as the empty sequence.
C17_Witness ==
    /\ DeserializeOver(1) /\ is_json_string[1]
    /\ raw_data[1] = S("[]")
    /\ outcome[1] = [kind |-> "return", val |-> L(<<>>)]

\* The integers anywhere inside a raw value.
RECURSIVE IntsIn(_)
IntsIn(v) ==
    CASE Tag(v) = "int" -> {v[2]}
      [] Tag(v) = "list" -> UNION {IntsIn(v[2][j]) : j \in 1..Len(v[2])}
      [] Tag(v) = "dict" -> UNION {IntsIn(v[2][j][2]) : j \in 1..Len(v[2])}
      [] OTHER -> {}
RECURSIVE IntClosure(_, _, _)
IntClosure(p, seen, frontier) ==
    IF frontier \subseteq seen THEN seen
    ELSE IntClosure(p, seen \cup frontier,
                    UNION {{j \in IntsIn(Slot(p, i)) : j >= 0 /\ j < ArrLen(p)} :
                              i \in frontier} \ (seen \cup frontier))

\* C18: for a non-empty sequence the root is slot 1, or slot 0 when there is
\* one slot only, and the hydration of the root is what deserialize returns;
\* slot 0 of a longer array is expanded only when a slot reachable from the
\* root holds the integer 0.
C18_RootSelection ==
    \A p \in Procs :
        (pc[p] = "done" /\ Serialized(p) /\ entry[p] # "_hydrate_nuxt3_value")
        => LET root == IF ArrLen(p) >= 2 THEN 1 ELSE 0
           IN /\ args[p] = <<I(root)>>
              /\ hret[p].kind = "return"
                 => /\ outcome[p] = hret[p]
                    /\ outcome[p].val = cache[p][root]
              /\ (ArrLen(p) >= 2 /\ expanded[p][0] > 0)
                 => \E i \in IntClosure(p, {}, {1}) : 0 \in IntsIn(Slot(p, i))

\* What deserialize returns, and the objects it makes, for each of the
\* arrays of the two-caller specification when the call runs alone.
Date5 == <<"datetime", I(5)>>
AloneResult(input) ==
    CASE input[2][2] = L(<<I(2), I(3), I(1), S("a"), I(9)>>) ->
            [outcome |-> [kind |-> "return", val |-> Ref(1)],
             heap |-> << <<"list", <<Date5, Ref(2), Ref(1), S("a"), None_>>>>,
                         <<"set", {Date5}>> >>]
      [] input[2][2] = D1("$m", L(<< L(<<I(2), I(3)>>) >>)) ->
            [outcome |-> [kind |-> "return", val |-> Ref(1)],
             heap |-> << <<"dict",
                           << <<S("k"), <<"pattern", <<<<"a">>, {"i"}>>>>>> >>>> >>]
      [] input[2][2] = D2("f", I(1), "g", I(2)) ->
            [outcome |-> [kind |-> "return", val |-> input],
             heap |-> << <<"dict", << <<S("f"), Ref(1)>> >>>> >>]
      [] input[2][2] = D1("$m", L(<< L(<<I(1)>>) >>)) ->
            [outcome |-> [kind |-> "return", val |-> input],
             heap |-> << <<"dict", <<>>>> >>]

\* A finished call has the result of the call run alone.
ResultsAsAlone ==
    \A p \in Procs :
        pc[p] = "done"
        => /\ outcome[p] = AloneResult(raw_data[p]).outcome
           /\ heap[p] = AloneResult(raw_data[p]).heap

\* Process q takes the step.
StepOf(q) == pc'[q] # pc[q] \/ stack'[q] # stack[q] \/ hret'[q] # hret[q]

\* A call begins with an empty cache, and a step of one call changes
\* nothing the other call reads.
FreshAndSeparate ==
    \A p \in Procs :
        /\ (pc[p] = "idle" /\ pc'[p] = "deserialize") => cache'[p] = NoCache
        /\ \A q \in Procs \ {p} :
              StepOf(q)
              => /\ cache'[p] = cache[p] /\ heap'[p] = heap[p]
                 /\ stack'[p] = stack[p] /\ hret'[p] = hret[p]
                 /\ parsed_data'[p] = parsed_data[p]
                 /\ raw_data'[p] = raw_data[p]
                 /\ outcome'[p] = outcome[p]

\* C19: two deserialize calls whose hydration steps interleave each return
\* what they return when run alone; each starts from an empty cache and no
\* step of one call changes the cache or any other state of the other.
C19_CallsIndependent == []ResultsAsAlone /\ [][FreshAndSeparate]_vars

\* Both calls are in the middle of their hydration, over different arrays,
\* each with entries in its cache.
C19_Witness ==
    /\ pc[1] = "deserialize" /\ pc[2] = "deserialize"
    /\ raw_data[1] # raw_data[2]
    /\ Len(stack[1]) >= 2 /\ Len(stack[2]) >= 2
    /\ Cardinality(DOMAIN cache[1]) >= 2
    /\ Cardinality(DOMAIN cache[2]) >= 2

\* parse_nuxt_result was called with `er`, which holds nothing to parse.
NothingFound(er) ==
    \/ Tag(er) # "dict"
    \/ er[2] = <<>>
    \/ ~Truthy(DictGet(er, "data"))
    \/ ~Truthy(DictGet(er, "method"))

\* C20: parse_nuxt_result raises NuxtDataNotFound when the extraction result
\* is null, not a mapping, empty, or has a falsy data or method field, and
\* parses nothing.
C20_NoDataRaises ==
    \A p \in Procs :
        (entry[p] = "parse_nuxt_result" /\ NothingFound(extraction_result[p]))
        => /\ pc[p] = "returned"
           /\ outcome[p].kind = "raise"
           /\ outcome[p].val = <<"exc", "NuxtDataNotFound">>
           /\ raw_data[p] = None_ /\ parsed_data[p] = None_
           /\ args[p] = <<>> /\ heap[p] = <<>>

\* A result with JSON text and an empty method tag was refused.
C20_Witness ==
    /\ entry[1] = "parse_nuxt_result" /\ pc[1] = "returned"
    /\ extraction_result[1] = ER(S("[]"), S(""))
    /\ outcome[1].val = <<"exc", "NuxtDataNotFound">>

\* parse_nuxt_result got data and a method tag, and is over.
ParseOver(p) == entry[p] = "parse_nuxt_result" /\ pc[p] = "returned"
DataOf(p) == DictGet(extraction_result[p], "data")
MethodOf(p) == DictGet(extraction_result[p], "method")
Resolving(p) ==
    /\ ParseOver(p)
    /\ ~NothingFound(extraction_result[p])
    /\ MethodOf(p) \in {S("element"), S("window")}

\* C21: while parse_nuxt_result resolves the element or the window strategy,
\* the only exception that leaves it is DataParsingError, with the raw text
\* in raw_content; element data that is not a string ends that way too.
C21_OnlyDataParsingError ==
    \A p \in Procs :
        Resolving(p)
        => /\ outcome[p].kind = "raise"
              => /\ outcome[p].val = <<"exc", "DataParsingError">>
                 /\ outcome[p].raw_content = DataOf(p)
           /\ (MethodOf(p) = S("element") /\ Tag(DataOf(p)) # "str")
              => outcome[p].kind = "raise"

\* C22: with truthy data and a method tag other than 'element' and 'window',
\* parse_nuxt_result raises a DataParsingError whose message names the tag;
\* nothing is parsed and nothing returned.
C22_UnknownMethodRaises ==
    \A p \in Procs :
        (ParseOver(p) /\ ~NothingFound(extraction_result[p])
            /\ MethodOf(p) \notin {S("element"), S("window")})
        => /\ outcome[p].kind = "raise"
           /\ outcome[p].val = <<"exc", "DataParsingError">>
           /\ outcome[p].message = <<"Unknown extraction method: ", MethodOf(p)>>
           /\ args[p] = <<>> /\ parsed_data[p] = None_

\* JSON text with the tag "x" was refused.
C22_Witness ==
    /\ ParseOver(1)
    /\ extraction_result[1] = ER(S("[]"), S("x"))
    /\ outcome[1].kind = "raise"
    /\ outcome[1].message = <<"Unknown extraction method: ", S("x")>>

\* Caller 1 asked for the element strategy with a text that is JSON.
ElementJson ==
    /\ ParseOver(1)
    /\ MethodOf(1) = S("element")
    /\ Tag(DataOf(1)) = "str"
    /\ JsonLoads(DataOf(1)).exc = ""

WindowOver(p) ==
    /\ ParseOver(p)
    /\ ~NothingFound(extraction_result[p])
    /\ MethodOf(p) = S("window")

\* C24: the window strategy gives data to deserialize (not in text form)
\* only when deserialization is requested and data is a sequence; otherwise
\* it returns data itself with the tag 'window' and hydrates nothing.
C24_WindowStrategy ==
    \A p \in Procs :
        WindowOver(p)
        => /\ outcome[p].kind = "return"
           /\ outcome[p].val[2][2] = S("window")
           /\ IF deserialize_nuxt3[p] /\ Tag(DataOf(p)) = "list"
              THEN /\ raw_data[p] = DataOf(p) /\ ~is_json_string[p]
                   /\ args[p] = <<I(RootIndex(DataOf(p)))>>
                   /\ hret[p].kind = "return"
                      => outcome[p].val[2][1] = hret[p].val
              ELSE /\ outcome[p].val[2][1] = DataOf(p)
                   /\ args[p] = <<>> /\ heap[p] = <<>>
                   /\ raw_data[p] = None_

\* A serialized array came back as it was, deserialization being off.
C24_Witness ==
    /\ WindowOver(1) /\ ~deserialize_nuxt3[1]
    /\ DataOf(1) = L(<<Meta, D1("k", S("a"))>>)
    /\ outcome[1] = [kind |-> "return", val |-> Tuple(DataOf(1), S("window"))]

\* The hydration of a child of a slot, once its hydrate call has returned:
\* a child that is not an integer is a literal and stays itself; an integer
\* gives None past the end of the array and the cache entry of the slot it
\* names otherwise.
HydrationOf(p, child) ==
    IF Tag(child) # "int" THEN child
    ELSE IF ~InBounds(p, child) THEN None_
    ELSE cache[CacheOf(p)][IntValue(child)]

ListSlots(p) ==
    {i \in DOMAIN cache[CacheOf(p)] :
        i \in SlotsOf(parsed_data[p]) /\ Tag(Slot(p, i)) = "list"}

\* The first top-level call over this cache has returned normally.
FirstCallReturned(p) ==
    /\ stack[p] = <<>>
    /\ Len(args[p]) = 1
    /\ hret[p].kind = "return"

\* C25: the sequence built for a slot that holds a sequence has, item for
\* item and in the order of the children, the hydration of each child: while
\* it is built, one item for every child the loop has passed; all N items
\* once the call has returned.
C25_SequenceShape ==
    \A p \in Procs :
        /\ \A i \in ListSlots(p) :
              LET children == Slot(p, i)[2]
                  result == heap[p][cache[CacheOf(p)][i][2]][2]
              IN /\ Len(result) <= Len(children)
                 /\ \A k \in 1..Len(result) :
                       result[k] = HydrationOf(p, children[k])
                 /\ FirstCallReturned(p) => Len(result) = Len(children)
        /\ \A d \in 1..Len(stack[p]) :
              LET f == stack[p][d]
              IN f.kind = "list"
                 => Len(heap[p][f.addr][2]) + Len(f.todo)
                       + (IF f.pc = "wait" THEN 1 ELSE 0)
                    = Len(Slot(p, f.slot)[2])

\* A call is under way or over.
InCall(p) == pc[p] \in {"hydrate", "deserialize", "done", "returned"}

\* C29: from the start of a hydrate or deserialize call on, whether it
\* returns, falls back or raises, no step changes the caller's input or the
\* array that is hydrated; the fallback gives back that same input.
C29_InputNotModified ==
    [][\A p \in Procs :
          InCall(p)
          => /\ raw_data'[p] = raw_data[p]
             /\ parsed_data'[p] = parsed_data[p]
             /\ (pc'[p] = "done" /\ hret'[p].kind = "raise"
                    /\ ~is_json_string'[p])
                => outcome'[p].val = raw_data[p]]_vars

\* Hydration built objects, then failed, and the call gave the input back.
C29_Witness ==
    /\ DeserializeOver(1) /\ ~is_json_string[1]
    /\ hret[1].kind = "raise"
    /\ heap[1] # <<>> /\ DOMAIN cache[CacheOf(1)] # {}
    /\ outcome[1] = [kind |-> "return", val |-> raw_data[1]]

\* The first top-level hydrate call over a cache, for an integer root.
HydrationRun(p) ==
    /\ InCall(p)
    /\ Len(args[p]) = 1
    /\ Tag(args[p][1]) = "int"

\* The container cached for slot i lacks no child of the slot.
Populated(p, i) ==
    LET v == Slot(p, i)
        e == cache[CacheOf(p)][i]
        obj == heap[p][e[2]]
    IN CASE Tag(v) = "list" ->
                /\ IsRef(e) /\ obj[1] = "list" /\ Len(obj[2]) = Len(v[2])
         [] Tag(v) = "dict" /\ Marker(v) = "" ->
                /\ IsRef(e) /\ obj[1] = "dict"
                /\ \A j \in 1..Len(v[2]) :
                      \E k \in 1..Len(obj[2]) :
                          /\ obj[2][k][1] = S(v[2][j][1])
                          /\ obj[2][k][2] = HydrationOf(p, v[2][j][2])
         [] Tag(v) = "dict" /\ Marker(v) = "$s" ->
                /\ IsRef(e) /\ obj[1] = "set"
                /\ \A j \in 1..Len(IterItems(GetKey(v, "$s"))) :
                      \E m \in obj[2] :
                          HashKey(m) = HashKey(HydrationOf(p,
                                           IterItems(GetKey(v, "$s"))[j]))
         [] Tag(v) = "dict" /\ Marker(v) = "$m" ->
                /\ IsRef(e) /\ obj[1] = "dict"
                /\ \A j \in 1..Len(IterItems(GetKey(v, "$m"))) :
                      LET kv == IterItems(IterItems(GetKey(v, "$m"))[j])
                      IN \E k \in 1..Len(obj[2]) :
                             HashKey(obj[2][k][1]) = HashKey(HydrationOf(p, kv[1]))
         [] OTHER -> TRUE

\* C30: during a hydration run the cache keys are slots of the array that
\* integer references lead to from the root; when the top-level call returns
\* normally, it returns the cache entry of the root and every cached
\* container has all its children.
C30_CacheInvariant ==
    \A p \in Procs :
        HydrationRun(p)
        => LET root == args[p][1][2]
               c == cache[CacheOf(p)]
           IN /\ DOMAIN c \subseteq SlotsOf(parsed_data[p])
              /\ DOMAIN c
                    \subseteq IntClosure(p, {}, {root} \cap SlotsOf(parsed_data[p]))
              /\ (FirstCallReturned(p) /\ root \in SlotsOf(parsed_data[p]))
                 => /\ hret[p].val = c[root]
                    /\ \A i \in DOMAIN c : Populated(p, i)

\* ------------------------------------------------------- extractor methods
NotStartedMessage ==
    "Extractor not started. Use async with NuxtDataExtractor() or start()."

\* C26: a call of extract, navigate, execute_step, extract_from_current_page
\* or extract_with_api_capture on an extractor that holds no browser context
\* is over at once with RuntimeError "Extractor not started ..." and has
\* opened no page and made no operation on a page; and an extractor that was
\* never started, or was stopped, holds no context.
C26_NotStartedRaises ==
    /\ extractor.lifecycle \in {"new", "stopped"} => ~extractor._context
    /\ (extractor.method \in Methods /\ ~extractor._context) =>
          /\ extractor.at = "over"
          /\ extractor.result.kind = "raise"
          /\ extractor.result.val = <<"exc", "RuntimeError">>
          /\ extractor.result.message = NotStartedMessage
          /\ extractor.opened = 0
          /\ extractor.touched = 0
          /\ extractor.pages = 0

\* A method was called after the extractor had been started and stopped.
C26_Witness ==
    /\ extractor.lifecycle = "stopped"
    /\ extractor.method = "extract"
    /\ extractor.result.val = <<"exc", "RuntimeError">>

\* An evaluation result with data, and one that is empty or has a falsy data
\* or method field.
HasData(r) == IF Tag(r) = "dict" THEN Truthy(DictGet(r, "data")) ELSE FALSE
Lacking(r) ==
    IF Tag(r) = "dict"
    THEN ~Truthy(DictGet(r, "data")) \/ ~Truthy(DictGet(r, "method"))
    ELSE TRUE
IsNotFound(result) ==
    result.kind = "raise" /\ result.val = <<"exc", "NuxtDataNotFound">>

\* The script is evaluated once if the first evaluation returned data and
\* twice if not, and NuxtDataNotFound is raised exactly for a last result
\* that lacks data or method.
EvaluatedAsNeeded ==
    LET ev == extractor.evaluations
    IN /\ Len(ev) = IF HasData(ev[1]) THEN 1 ELSE 2
       /\ IsNotFound(extractor.combined) <=> Lacking(ev[Len(ev)])

\* C27: once combined extraction is over, the script was evaluated once if
\* the first evaluation returned data and twice if not; NuxtDataNotFound was
\* raised if and only if the last result lacks data or method; and otherwise
\* the parsed data was returned.
C27_CombinedExtraction ==
    extractor.combined # NoResult =>
        /\ EvaluatedAsNeeded
        /\ ~Lacking(LastEvaluation(extractor)) =>
              extractor.combined.kind = "return"

\* C27, amended: as above, but with a last result that has data and method
\* the extraction ends as parse_nuxt_result ends on that result: it returns
\* the data of the pair parse_nuxt_result returned, or raises the
\* DataParsingError parse_nuxt_result raised.
C27_CombinedExtractionAmended ==
    extractor.combined # NoResult =>
        /\ EvaluatedAsNeeded
        /\ ~Lacking(LastEvaluation(extractor)) =>
              /\ pc[1] = "returned"
              /\ extraction_result[1] = LastEvaluation(extractor)
              /\ IF outcome[1].kind = "return"
                 THEN /\ extractor.combined.kind = "return"
                      /\ Tuple(extractor.combined.val,
                               DictGet(LastEvaluation(extractor), "method"))
                            = outcome[1].val
                 ELSE /\ extractor.combined = outcome[1]
                      /\ outcome[1].val = <<"exc", "DataParsingError">>

\* A second evaluation found the element a first one had not, and its
\* hydrated data was returned.
C27_Witness ==
    /\ extractor.combined.kind = "return"
    /\ Len(extractor.evaluations) = 2
    /\ ~Lacking(LastEvaluation(extractor))
    /\ entry[1] = "parse_nuxt_result"
    /\ args[1] # <<>>

\* --------------------------------------------------------- date selection
\* C28: when execute_step on a SELECT_DATE step is over and the calendar
\* never displayed the target month in any of the 120 attempts, it has raised
\* DateNotFoundInCalendarError naming the target date, after at most 120
\* month-navigation clicks.
C28_DateNotFound ==
    (calendar.at = "over" /\ calendar.attempt = MaxAttempts) =>
        /\ calendar.result.kind = "raise"
        /\ calendar.result.val = <<"exc", "DateNotFoundInCalendarError">>
        /\ calendar.result.target_date = TargetDate
        /\ calendar.clicks <= MaxAttempts
====
